---- MODULE Spec2Model ----
(***************************************************************************)
(* A model of the kappybara rule-based simulator: the site-graph mixture,  *)
(* the pattern matcher, the rewrite rules and the Gillespie scheduler.     *)
(*                                                                         *)
(* Host agents are identified by the id the mixture's nonce gave them.     *)
(* A site is a record [internal_state, link_state]; a link state is a      *)
(* record whose kind says which of the site_states.py cases it is.         *)
(***************************************************************************)
EXTENDS Integers, Sequences, FiniteSets, TLC

\* ------------------------------------------------------------------ bounds
MaxAgents == 3      \* agents instantiated into the mixture
MaxTally  == 2      \* rule applications counted by the scheduler
MaxCopies == 4      \* copies of the pattern instantiated in a dimer scenario
MaxN      == 2      \* the n_copies handed to Mixture.instantiate

\* ----------------------------------------------------------- program state
VARIABLES
    patterns,            \* the Pattern objects: agents (slots) and components
    rule_objects,        \* the Rule objects: left, right and class
    mixture,             \* the fields of the Mixture
    component_weights,   \* rule.component_weights of each rule
    system,              \* the fields of the System
    error,               \* the exception that ended the run, or "none"
    last,                \* the last call made and how it ended
    indexed_set          \* the fields of an IndexedSet

\* ------------------------------------------------------------ site states
Lnk(k, a, s, t) == [kind |-> k, ag |-> a, lab |-> s, tn |-> t]

EmptyState        == Lnk("empty", 0, "", "")
UndeterminedState == Lnk("undet", 0, "", "")
WildCardPredicate == Lnk("wild", 0, "", "")
BoundPredicate    == Lnk("bound", 0, "", "")
SiteTypePredicate(site_name, agent_name) == Lnk("sitetype", 0, site_name, agent_name)
\* a reference to the Site labelled s of agent (or pattern slot) a
SiteRef(a, s)     == Lnk("site", a, s, "")

\* internal states are strings; these two are the predicate objects
UndeterminedInternal == "?"
WildCardInternal     == "#"

IsInternalState(x) == x \notin {UndeterminedInternal, WildCardInternal}
IsSite(ls)         == ls.kind = "site"

Site(st, ls) == [internal_state |-> st, link_state |-> ls]
Agent(t, ss) == [type |-> t, sites |-> ss]
NoAgent      == [type |-> "none", sites |-> << >>]

\* the order in which an agent's sites dict is iterated
LabelOrder == <<"a", "b", "l", "r">>

RECURSIVE SeqFilterDom(_, _)
SeqFilterDom(s, D) ==
    IF s = << >> THEN << >>
    ELSE (IF Head(s) \in D THEN <<Head(s)>> ELSE << >>) \o SeqFilterDom(Tail(s), D)

SiteNames(agent) == SeqFilterDom(LabelOrder, DOMAIN agent.sites)

\* SitePattern.undetermined
undetermined(site) ==
    /\ site.internal_state = UndeterminedInternal
    /\ site.link_state.kind \in {"undet", "empty"}

\* ---------------------------------------------------------------- patterns
\* Patterns are sequences of slots; integer bond labels are already resolved
\* to site references, as Pattern.__init__ leaves them.
PatternTable ==
    [ initA   |-> << Agent("A", "l" :> Site("u", EmptyState) @@ "r" :> Site("u", EmptyState)) >>,
      \* A(l[1]{u}, r[2]{u}), A(l[2]{u}, r[1]{u})
      initRing |-> << Agent("A", "l" :> Site("u", SiteRef(2, "r")) @@ "r" :> Site("u", SiteRef(2, "l"))),
                      Agent("A", "l" :> Site("u", SiteRef(1, "r")) @@ "r" :> Site("u", SiteRef(1, "l"))) >>,
      initAB  |-> << Agent("A", "l" :> Site("u", EmptyState) @@ "r" :> Site("u", SiteRef(2, "l"))),
                     Agent("B", "l" :> Site("u", SiteRef(1, "r")) @@ "r" :> Site("u", EmptyState)) >>,
      \* A(r[.]), A(l[.]) -> A(r[1]), A(l[1])
      bindL   |-> << Agent("A", "r" :> Site("?", EmptyState)),
                     Agent("A", "l" :> Site("?", EmptyState)) >>,
      bindR   |-> << Agent("A", "r" :> Site("?", SiteRef(2, "l"))),
                     Agent("A", "l" :> Site("?", SiteRef(1, "r"))) >>,
      \* A(r[1]), A(l[1]) -> A(r[.]), A(l[.]{p})
      unbindL |-> << Agent("A", "r" :> Site("?", SiteRef(2, "l"))),
                     Agent("A", "l" :> Site("?", SiteRef(1, "r"))) >>,
      unbindR |-> << Agent("A", "r" :> Site("?", EmptyState)),
                     Agent("A", "l" :> Site("p", EmptyState)) >>,
      \* A(r[1]), A(l[1] r[2]), A(l[2]), A(l[.]) ->
      \* A(r[1]), A(l[.] r[1]), A(l[.] r[3]), A(l[3])
      foldL   |-> << Agent("A", "r" :> Site("?", SiteRef(2, "l"))),
                     Agent("A", "l" :> Site("?", SiteRef(1, "r")) @@ "r" :> Site("?", SiteRef(3, "l"))),
                     Agent("A", "l" :> Site("?", SiteRef(2, "r"))),
                     Agent("A", "l" :> Site("?", EmptyState)) >>,
      foldR   |-> << Agent("A", "r" :> Site("?", SiteRef(2, "r"))),
                     Agent("A", "l" :> Site("?", EmptyState) @@ "r" :> Site("?", SiteRef(1, "r"))),
                     Agent("A", "l" :> Site("?", EmptyState) @@ "r" :> Site("?", SiteRef(4, "l"))),
                     Agent("A", "l" :> Site("?", SiteRef(3, "r"))) >>,
      \* A(l[.]{u} r[.]) -> B(l[.]{u} r[.]{u})
      convL   |-> << Agent("A", "l" :> Site("u", EmptyState) @@ "r" :> Site("?", EmptyState)) >>,
      convR   |-> << Agent("B", "l" :> Site("u", EmptyState) @@ "r" :> Site("u", EmptyState)) >>,
      \* A(r[.]), A(l[.]) -> A(r[1]), A(l[1]) @ k {k'}: one left pattern, two rules
      ambiL   |-> << Agent("A", "r" :> Site("?", EmptyState)),
                     Agent("A", "l" :> Site("?", EmptyState)) >>,
      ambiR   |-> << Agent("A", "r" :> Site("?", SiteRef(2, "l"))),
                     Agent("A", "l" :> Site("?", SiteRef(1, "r"))) >>,
      \* observable |A(l{p} r[_])|
      obsPB   |-> << Agent("A", "l" :> Site("p", UndeterminedState) @@ "r" :> Site("?", BoundPredicate)) >>,
      \* observable |A(r[1]), A(r[1])|
      obsRR   |-> << Agent("A", "r" :> Site("?", SiteRef(2, "r"))),
                     Agent("A", "r" :> Site("?", SiteRef(1, "r"))) >>,
      \* A(a[1]), B(b[1])
      dimer   |-> << Agent("A", "a" :> Site("?", SiteRef(2, "b"))),
                     Agent("B", "b" :> Site("?", SiteRef(1, "a"))) >>,
      \* A(a[.]), B(b[.])
      freeAB  |-> << Agent("A", "a" :> Site("?", EmptyState)),
                     Agent("B", "b" :> Site("?", EmptyState)) >>,
      \* A(l[1] r[.]), A(l[.] r[1])
      chain2  |-> << Agent("A", "l" :> Site("?", SiteRef(2, "r")) @@ "r" :> Site("?", EmptyState)),
                     Agent("A", "l" :> Site("?", EmptyState) @@ "r" :> Site("?", SiteRef(1, "l"))) >>,
      \* observables |A(a[.])| and |B(b[.])|
      obsA    |-> << Agent("A", "a" :> Site("?", EmptyState)) >>,
      obsB    |-> << Agent("B", "b" :> Site("?", EmptyState)) >>,
      \* A(l{u}) and A(l{p} r{u}): sides of rules that only rewrite states
      keepR   |-> << Agent("A", "l" :> Site("u", UndeterminedState)) >>,
      flipR   |-> << Agent("A", "l" :> Site("p", UndeterminedState)
                                @@ "r" :> Site("u", UndeterminedState)) >>,
      \* A(l[.]), . -> A(l[.]), B(l[.]{u} r[.]{u})
      createL |-> << Agent("A", "l" :> Site("?", EmptyState)), NoAgent >>,
      createR |-> << Agent("A", "l" :> Site("?", EmptyState)),
                     Agent("B", "l" :> Site("u", EmptyState) @@ "r" :> Site("u", EmptyState)) >>,
      \* A(l[.]{u} r[1]{u}), B(l[1]{u} r[.]{u}) -> A(l[.]{u} r[.]{u}), .
      deleteR |-> << Agent("A", "l" :> Site("u", EmptyState) @@ "r" :> Site("u", EmptyState)),
                     NoAgent >>,
      \* A(l[.]{u} r[.]) -> .
      dropR   |-> << NoAgent >>,
      \* A(l[.]{u} r[.]) -> A(l[.]{u} r[_])
      wildR   |-> << Agent("A", "l" :> Site("u", EmptyState) @@ "r" :> Site("?", BoundPredicate)) >>,
      \* A(r[1]), A(l[1]), A(l[.]) -> A(r[1]), A(l[.]), A(l[1])
      rebindL |-> << Agent("A", "r" :> Site("?", SiteRef(2, "l"))),
                     Agent("A", "l" :> Site("?", SiteRef(1, "r"))),
                     Agent("A", "l" :> Site("?", EmptyState)) >>,
      rebindR |-> << Agent("A", "r" :> Site("?", SiteRef(3, "l"))),
                     Agent("A", "l" :> Site("?", EmptyState)),
                     Agent("A", "l" :> Site("?", SiteRef(1, "r"))) >> ]

PatternNames == DOMAIN PatternTable
InitPatterns == {"initA", "initAB", "initRing"}

RuleTable ==
    [ bind     |-> [left |-> "bindL",   right |-> "bindR",   kind |-> "default"],
      unbind   |-> [left |-> "unbindL", right |-> "unbindR", kind |-> "default"],
      fold     |-> [left |-> "foldL",   right |-> "foldR",   kind |-> "bi"],
      conv     |-> [left |-> "convL",   right |-> "convR",   kind |-> "default"],
      ambi_bi  |-> [left |-> "ambiL",   right |-> "ambiR",   kind |-> "bi"],
      ambi_uni |-> [left |-> "ambiL",   right |-> "ambiR",   kind |-> "uni"],
      \* A(a[1]), B(b[1]) -> A(a[.]), B(b[.]) and its reverse
      unbindAB |-> [left |-> "dimer",   right |-> "freeAB",  kind |-> "default"],
      bindAB   |-> [left |-> "freeAB",  right |-> "dimer",   kind |-> "default"],
      \* rules that rewrite states only: A(l{u}) -> A(l{p} r{u}),
      \* A(l[.]{u} r[.]) -> A(l{p} r{u}) and A(l[.]{u} r[.]) -> A(l{u})
      mark     |-> [left |-> "keepR",   right |-> "flipR",   kind |-> "default"],
      flip     |-> [left |-> "convL",   right |-> "flipR",   kind |-> "default"],
      keep     |-> [left |-> "convL",   right |-> "keepR",   kind |-> "default"],
      \* rules with empty slots, and one with a bound predicate on the right
      create   |-> [left |-> "createL", right |-> "createR", kind |-> "default"],
      delete   |-> [left |-> "initAB",  right |-> "deleteR", kind |-> "default"],
      drop     |-> [left |-> "convL",   right |-> "dropR",   kind |-> "default"],
      wild     |-> [left |-> "convL",   right |-> "wildR",   kind |-> "default"],
      \* a bond moved from one agent to another
      rebind   |-> [left |-> "rebindL", right |-> "rebindR", kind |-> "default"] ]

RuleNames == DOMAIN RuleTable

\* ------------------------------------------------------ graph traversal
\* Agent.neighbors, in site order; objs maps an agent to its record
RECURSIVE NeighborSeq(_, _, _)
NeighborSeq(objs, a, names) ==
    IF names = << >> THEN << >>
    ELSE LET ls == objs[a].sites[Head(names)].link_state
         IN  (IF IsSite(ls) THEN <<ls.ag>> ELSE << >>) \o NeighborSeq(objs, a, Tail(names))

neighbors(objs, a) == NeighborSeq(objs, a, SiteNames(objs[a]))

RECURSIVE DftLoop(_, _, _, _)
DftLoop(objs, stack, visited, traversal) ==
    IF stack = << >> THEN traversal
    ELSE LET agent == stack[Len(stack)]
             rest  == SubSeq(stack, 1, Len(stack) - 1)
         IN  IF agent \in visited
             THEN DftLoop(objs, rest, visited, traversal)
             ELSE DftLoop(objs, rest \o neighbors(objs, agent),
                          visited \cup {agent}, Append(traversal, agent))

depth_first_traversal(objs, start) == DftLoop(objs, <<start>>, {}, << >>)

SeqRange(s) == {s[i] : i \in DOMAIN s}

Min(S) == CHOOSE x \in S : \A y \in S : x <= y
Max(S) == CHOOSE x \in S : \A y \in S : y <= x

\* Pattern.components: the connected subgraphs of the non-null slots, each
\* with its agents in traversal order (agents[1] is the matcher's root)
RECURSIVE ComponentsLoop(_, _, _)
ComponentsLoop(p, unseen, acc) ==
    IF unseen = {} THEN acc
    ELSE LET component == depth_first_traversal(p, Min(unseen))
         IN  ComponentsLoop(p, unseen \ SeqRange(component), Append(acc, component))

PatternComponents(pname) ==
    LET p == PatternTable[pname]
    IN  ComponentsLoop(p, {i \in DOMAIN p : p[i] # NoAgent}, << >>)

\* a pattern component, named by its pattern and its index in components
Comp(pname, k) == [pat |-> pname, idx |-> k]
CompAgents(c)  == patterns[c.pat].components[c.idx]
CompAgent(c, a) == patterns[c.pat].agents[a]

LeftComponents(rname) ==
    LET pname == rule_objects[rname].left
    IN  [k \in DOMAIN patterns[pname].components |-> Comp(pname, k)]

\* ------------------------------------------------- Mixture.find_embeddings
\* The mixture M is a record of the fields of class Mixture, plus obj, the
\* heap of agent objects (an agent removed from the mixture is still an object).
TypeOf(M, b) == M.obj[b].type

FeResult(failed, raised, agent_map, frontier) ==
    [failed |-> failed, raised |-> raised, agent_map |-> agent_map, frontier |-> frontier]

\* the body of "for site_name in a.sites" for one site
FeSite(M, c, a, b, site_name, agent_map, frontier) ==
    LET a_site == CompAgent(c, a).sites[site_name]
        fail   == FeResult(TRUE, FALSE, agent_map, frontier)
        pass   == FeResult(FALSE, FALSE, agent_map, frontier)
    IN  IF site_name \notin DOMAIN M.obj[b].sites
        THEN IF ~undetermined(a_site) THEN fail
             ELSE FeResult(TRUE, TRUE, agent_map, frontier)      \* b.sites[site_name]: KeyError
        ELSE
        LET b_site == M.obj[b].sites[site_name]
            a_ls   == a_site.link_state
            b_ls   == b_site.link_state
        IN  IF /\ IsInternalState(a_site.internal_state)
               /\ a_site.internal_state # b_site.internal_state
            THEN fail
            ELSE CASE a_ls.kind \in {"wild", "undet"} -> pass
                   [] a_ls.kind = "empty" -> IF b_ls.kind # "empty" THEN fail ELSE pass
                   [] a_ls.kind = "bound" -> IF ~IsSite(b_ls) THEN fail ELSE pass
                   [] a_ls.kind = "sitetype" ->
                        IF ~IsSite(b_ls) THEN fail
                        ELSE IF /\ a_ls.lab # b_ls.lab
                                /\ a_ls.tn # TypeOf(M, b_ls.ag)
                             THEN fail ELSE pass
                   [] a_ls.kind = "site" ->
                        IF ~IsSite(b_ls) THEN fail
                        ELSE LET a_partner == a_ls.ag
                                 b_partner == b_ls.ag
                             IN  IF a_partner \in DOMAIN agent_map
                                 THEN IF agent_map[a_partner] # b_partner THEN fail ELSE pass
                                 ELSE FeResult(FALSE, FALSE,
                                               agent_map @@ (a_partner :> b_partner),
                                               frontier \cup {a_partner})

RECURSIVE FeSites(_, _, _, _, _, _, _)
FeSites(M, c, a, b, names, agent_map, frontier) ==
    IF names = << >> THEN FeResult(FALSE, FALSE, agent_map, frontier)
    ELSE LET r == FeSite(M, c, a, b, Head(names), agent_map, frontier)
         IN  IF r.failed THEN r
             ELSE FeSites(M, c, a, b, Tail(names), r.agent_map, r.frontier)

\* "while frontier and not search_failed"
RECURSIVE FeWhile(_, _, _, _)
FeWhile(M, c, agent_map, frontier) ==
    IF frontier = {} THEN FeResult(FALSE, FALSE, agent_map, frontier)
    ELSE LET a == Min(frontier)
             b == agent_map[a]
         IN  IF CompAgent(c, a).type # TypeOf(M, b)
             THEN FeResult(TRUE, FALSE, agent_map, frontier)
             ELSE LET r == FeSites(M, c, a, b, SiteNames(CompAgent(c, a)),
                                   agent_map, frontier \ {a})
                  IN  IF r.failed THEN r ELSE FeWhile(M, c, r.agent_map, r.frontier)

FeRoot(M, c, b_root) ==
    LET a_root == CompAgents(c)[1]
    IN  FeWhile(M, c, (a_root :> b_root), {a_root})

RECURSIVE FeRoots(_, _, _)
FeRoots(M, c, b_roots) ==
    IF b_roots = << >> THEN << >>
    ELSE LET r == FeRoot(M, c, Head(b_roots))
         IN  (IF r.failed THEN << >> ELSE <<r.agent_map>>) \o FeRoots(M, c, Tail(b_roots))

find_embeddings(M, c) ==
    FeRoots(M, c, M.agents_by_type[CompAgent(c, CompAgents(c)[1]).type])

\* ------------------------------------------------------- mixture edits
\* The private edits return the mixture together with the exception raised,
\* "none" when the edit returned normally.
Res(M, err) == [M |-> M, err |-> err]

Restrict(f, D) == [x \in D |-> f[x]]

\* a site is <<agent, label>>; an Edge is <<site1, site2>>
LinkOf(M, s)  == M.obj[s[1]].sites[s[2]].link_state
RefTo(s)      == SiteRef(s[1], s[2])
SetLink(obj, s, ls) ==
    [obj EXCEPT ![s[1]].sites[s[2]].link_state = ls]

AllUnbound(M, agent) ==
    \A n \in DOMAIN M.obj[agent].sites : M.obj[agent].sites[n].link_state = EmptyState

\* a new Component object
NewComponent(M) == Min((1 .. Cardinality(DOMAIN M.components) + 1) \ DOMAIN M.components)

RemoveFirst(s, x) ==
    LET i == Min({j \in DOMAIN s : s[j] = x})
    IN  SubSeq(s, 1, i - 1) \o SubSeq(s, i + 1, Len(s))

\* an _add_agent without its assertion that every site is empty
_add_agent_unchecked(M, agent) ==
    LET component == NewComponent(M)
    IN  Res([M EXCEPT
               !.agents = @ \cup {agent},
               !.agents_by_type[M.obj[agent].type] = Append(@, agent),
               !.components = @ @@ (component :> {agent}),
               !.component_index = (agent :> component) @@ @], "none")

_add_agent(M, agent) ==
    IF ~AllUnbound(M, agent) THEN Res(M, "AssertionError")
    ELSE LET component == NewComponent(M)
         IN  Res([M EXCEPT
                    !.agents = @ \cup {agent},
                    !.agents_by_type[M.obj[agent].type] = Append(@, agent),
                    !.components = @ @@ (component :> {agent}),
                    !.component_index = (agent :> component) @@ @], "none")

_remove_agent(M, agent) ==
    IF ~AllUnbound(M, agent) THEN Res(M, "AssertionError")
    ELSE IF agent \notin M.agents THEN Res(M, "KeyError")
    ELSE LET M1 == [M EXCEPT
                      !.agents = @ \ {agent},
                      !.agents_by_type[M.obj[agent].type] = RemoveFirst(@, agent)]
             component == M.component_index[agent]
         IN  IF Cardinality(M.components[component]) # 1 THEN Res(M1, "AssertionError")
             ELSE Res([M1 EXCEPT
                         !.components = Restrict(@, DOMAIN @ \ {component}),
                         !.component_index = Restrict(@, DOMAIN @ \ {agent})], "none")

_add_edge(M, edge) ==
    LET site1 == edge[1]
        site2 == edge[2]
    IN  IF site1[1] \notin M.agents \/ site2[1] \notin M.agents
        THEN Res(M, "AssertionError")
        ELSE LET M1 == [M EXCEPT !.obj = SetLink(SetLink(@, site1, RefTo(site2)),
                                                 site2, RefTo(site1))]
                 component1 == M.component_index[site1[1]]
                 component2 == M.component_index[site2[1]]
             IN  IF component1 = component2 THEN Res(M1, "none")
                 ELSE Res([M1 EXCEPT
                             !.components =
                                 [k \in DOMAIN @ \ {component2} |->
                                     IF k = component1
                                     THEN @[component1] \cup @[component2] ELSE @[k]],
                             !.component_index =
                                 [a \in DOMAIN @ |->
                                     IF a \in M.components[component2]
                                     THEN component1 ELSE @[a]]], "none")

\* a _remove_edge that leaves the bond in place
_remove_edge_kept(M, edge) == Res(M, "none")

_remove_edge(M, edge) ==
    LET site1 == edge[1]
        site2 == edge[2]
    IN  IF LinkOf(M, site1) # RefTo(site2) \/ LinkOf(M, site2) # RefTo(site1)
        THEN Res(M, "AssertionError")
        ELSE
        LET M1 == [M EXCEPT !.obj = SetLink(SetLink(@, site1, EmptyState),
                                            site2, EmptyState)]
            agent1 == site1[1]
            agent2 == site2[1]
        IN  IF agent1 \notin DOMAIN M.component_index \/ agent2 \notin DOMAIN M.component_index
            THEN Res(M1, "KeyError")
            ELSE
            LET old_component == M.component_index[agent1]
            IN  IF old_component # M.component_index[agent2] THEN Res(M1, "AssertionError")
                ELSE
                LET maybe_new_component == SeqRange(depth_first_traversal(M1.obj, agent1))
                    new == NewComponent(M1)
                IN  IF agent2 \in maybe_new_component THEN Res(M1, "none")
                    ELSE IF ~(maybe_new_component \subseteq M1.components[old_component])
                    THEN Res(M1, "KeyError")
                    ELSE Res([M1 EXCEPT
                                !.components =
                                    [@ EXCEPT ![old_component] = @ \ maybe_new_component]
                                    @@ (new :> maybe_new_component),
                                !.component_index =
                                    [a \in DOMAIN @ |->
                                        IF a \in maybe_new_component THEN new ELSE @[a]]],
                             "none")

RECURSIVE RemoveEdges(_, _)
RemoveEdges(r, edges) ==
    IF edges = << >> \/ r.err # "none" THEN r
    ELSE RemoveEdges(_remove_edge(r.M, Head(edges)), Tail(edges))

RECURSIVE RemoveAgents(_, _)
RemoveAgents(r, as) ==
    IF as = << >> \/ r.err # "none" THEN r
    ELSE RemoveAgents(_remove_agent(r.M, Head(as)), Tail(as))

RECURSIVE AddAgents(_, _)
AddAgents(r, as) ==
    IF as = << >> \/ r.err # "none" THEN r
    ELSE AddAgents(_add_agent(r.M, Head(as)), Tail(as))

RECURSIVE AddEdges(_, _)
AddEdges(r, edges) ==
    IF edges = << >> \/ r.err # "none" THEN r
    ELSE AddEdges(_add_edge(r.M, Head(edges)), Tail(edges))

\* ------------------------------------------------------ embedding indices
component_of_agent(M, agent) == M.component_index[agent]

\* the component an embedding is filed under: that of its first value, the
\* image of the root
EmbeddingComponent(M, c, embedding) ==
    component_of_agent(M, embedding[CompAgents(c)[1]])

SelectIn(M, c, embeddings, comp) ==
    LET Test(e) == EmbeddingComponent(M, c, e) = comp
    IN  SelectSeq(embeddings, Test)

fetch_embeddings(M, c) ==
    IF c \in DOMAIN M.match_cache THEN M.match_cache[c] ELSE << >>

fetch_embeddings_in_component(M, c, comp) ==
    IF <<comp, c>> \in DOMAIN M.match_cache_by_component
    THEN M.match_cache_by_component[<<comp, c>>] ELSE << >>

\* the Component objects that can key match_cache_by_component
ComponentKeys(M) ==
    DOMAIN M.components \cup {M.component_index[a] : a \in DOMAIN M.component_index}

\* an apply_update that edits the graph and leaves the indices as they were
UpdateEmbeddingsSkipped(M) == M

\* the tail of apply_update: both indices are rebuilt from scratch
UpdateEmbeddings(M) ==
    LET cache == [c \in DOMAIN M.match_cache |-> find_embeddings(M, c)]
    IN  [M EXCEPT
           !.match_cache = cache,
           !.match_cache_by_component =
               [k \in ComponentKeys(M) \X (DOMAIN cache) |->
                   SelectIn(M, k[2], cache[k[2]], k[1])]]

track_component_pattern(M, c) ==
    LET embeddings == find_embeddings(M, c)
    IN  [M EXCEPT
           !.match_cache = [k \in DOMAIN @ \cup {c} |-> IF k = c THEN embeddings ELSE @[k]],
           !.match_cache_by_component =
               [k \in DOMAIN @ \cup (ComponentKeys(M) \X {c}) |->
                   (IF k \in DOMAIN @ THEN @[k] ELSE << >>)
                   \o (IF k[2] = c THEN SelectIn(M, c, embeddings, k[1]) ELSE << >>)]]

\* Mixture.apply_update; the two edge sets are iterated in the orders given
apply_update(M, update, removals, additions) ==
    LET r == AddEdges(AddAgents(RemoveAgents(RemoveEdges(Res(M, "none"), removals),
                                             update.agents_to_remove),
                                update.agents_to_add),
                      additions)
    IN  IF r.err # "none" THEN r ELSE Res(UpdateEmbeddings(r.M), "none")

\* ------------------------------------------------------------ MixtureUpdate
NoUpdate ==
    [agents_to_add |-> << >>, agents_to_remove |-> << >>,
     edges_to_add |-> {}, edges_to_remove |-> {}, agents_changed |-> {}]

\* Edge.__eq__ is unordered: adding an edge already present either way round
\* leaves the set as it is
EdgeIn(e, edges)  == e \in edges \/ <<e[2], e[1]>> \in edges
\* a set of edges that tells the two orientations of a bond apart
EdgeAddOrdered(edges, e) == edges \cup {e}

EdgeAdd(edges, e) == IF EdgeIn(e, edges) THEN edges ELSE edges \cup {e}

URes(U, M, err) == [U |-> U, M |-> M, err |-> err]

\* a remove_agent that does not list the agent for removal
remove_agent_kept(U, M, agent) == URes(U, M, "none")

\* MixtureUpdate.remove_agent: edges_to_remove is a set and has no append
remove_agent(U, M, agent) ==
    LET U1 == [U EXCEPT !.agents_to_remove = Append(@, agent)]
    IN  IF \E n \in DOMAIN M.obj[agent].sites : IsSite(M.obj[agent].sites[n].link_state)
        THEN URes(U1, M, "AttributeError")
        ELSE URes(U1, M, "none")

\* Mixture.instantiate_agent: a copy of the pattern agent with a fresh id and
\* every bound or undetermined link state reset to empty
InstantiableSite(site) ==
    /\ site.internal_state # WildCardInternal
    /\ site.link_state.kind \in {"empty", "site", "undet"}

instantiate_agent(agent_p) ==
    Agent(agent_p.type,
          [n \in DOMAIN agent_p.sites |->
              Site(agent_p.sites[n].internal_state, EmptyState)])

new_id(M) == M.nonce

\* MixtureUpdate.create_agent
create_agent(U, M, agent_pattern) ==
    IF \E n \in DOMAIN agent_pattern.sites : ~InstantiableSite(agent_pattern.sites[n])
    THEN URes(U, M, "AssertionError")
    ELSE LET id == new_id(M)
             M1 == [M EXCEPT !.nonce = @ + 1,
                             !.obj = (id :> instantiate_agent(agent_pattern)) @@ @]
         IN  URes([U EXCEPT !.agents_to_add = Append(@, id)], M1, "none")

\* a disconnect_site that records nothing
disconnect_site_ignored(U, M, site) == U

disconnect_site(U, M, site) ==
    IF IsSite(LinkOf(M, site))
    THEN [U EXCEPT !.edges_to_remove =
              EdgeAdd(@, <<site, <<LinkOf(M, site).ag, LinkOf(M, site).lab>> >>)]
    ELSE U

\* a connect_sites that records nothing
connect_sites_ignored(U, M, site1, site2) == U

connect_sites(U, M, site1, site2) ==
    LET U1 == IF IsSite(LinkOf(M, site1)) /\ LinkOf(M, site1) # RefTo(site2)
              THEN disconnect_site(U, M, site1) ELSE U
        U2 == IF IsSite(LinkOf(M, site2)) /\ LinkOf(M, site2) # RefTo(site1)
              THEN disconnect_site(U1, M, site2) ELSE U1
    IN  IF ~(/\ IsSite(LinkOf(M, site1))
             /\ IsSite(LinkOf(M, site2))
             /\ LinkOf(M, site1) = RefTo(site2))
        THEN [U2 EXCEPT !.edges_to_add = EdgeAdd(@, <<site1, site2>>)]
        ELSE U2

\* ------------------------------------------------- KappaRule._produce_update
None == -1

Left(rname)  == patterns[rule_objects[rname].left].agents
Right(rname) == patterns[rule_objects[rname].right].agents

\* KappaRule.convert_selection_map
convert_selection_map(rname, selection_map) ==
    [i \in DOMAIN Left(rname) |->
        IF Left(rname)[i] = NoAgent THEN None ELSE selection_map[i]]

PRes(U, M, new_selection, err) ==
    [U |-> U, M |-> M, new_selection |-> new_selection, err |-> err]

\* the loop over the right agent's sites that overwrites internal states
RECURSIVE SetStates(_, _, _, _, _)
SetStates(st, l_agent, r_agent, agent, names) ==
    IF names = << >> \/ st.err # "none" THEN st
    ELSE LET n == Head(names)
             r_site == r_agent.sites[n]
         IN  IF ~IsInternalState(r_site.internal_state)
             THEN SetStates(st, l_agent, r_agent, agent, Tail(names))
             ELSE IF n \notin DOMAIN st.M.obj[agent].sites
             THEN [st EXCEPT !.err = "KeyError"]
             ELSE LET M1 == [st.M EXCEPT !.obj[agent].sites[n].internal_state =
                                              r_site.internal_state]
                  IN  IF n \notin DOMAIN l_agent.sites
                      THEN [st EXCEPT !.M = M1, !.err = "KeyError"]
                      ELSE SetStates(
                             [st EXCEPT !.M = M1,
                                        !.U.agents_changed =
                                            IF r_site.internal_state
                                                 # l_agent.sites[n].internal_state
                                            THEN @ \cup {agent} ELSE @],
                             l_agent, r_agent, agent, Tail(names))

\* "Manage agents": one slot of the first loop
ManageAgent(rname, selection, st, i) ==
    LET l_agent == Left(rname)[i]
        r_agent == Right(rname)[i]
        agent   == selection[i]
    IN  CASE l_agent = NoAgent /\ r_agent # NoAgent ->
                \* update.create_agent(r_agent): the mixture argument is missing
                [st EXCEPT !.err = "TypeError"]
          [] l_agent # NoAgent /\ r_agent = NoAgent ->
                LET r == remove_agent(st.U, st.M, agent)
                IN  [st EXCEPT !.U = r.U, !.err = r.err]
          [] l_agent # NoAgent /\ r_agent # NoAgent /\ l_agent.type # r_agent.type ->
                LET r == remove_agent(st.U, st.M, agent)
                IN  IF r.err # "none" THEN [st EXCEPT !.U = r.U, !.err = r.err]
                    ELSE LET c == create_agent(r.U, r.M, r_agent)
                         IN  IF c.err # "none" THEN [st EXCEPT !.U = c.U, !.err = c.err]
                             ELSE PRes(c.U, c.M,
                                       [st.new_selection EXCEPT ![i] = new_id(r.M)], "none")
          [] l_agent # NoAgent /\ r_agent # NoAgent /\ l_agent.type = r_agent.type ->
                LET r == SetStates(st, l_agent, r_agent, agent, SiteNames(r_agent))
                IN  [r EXCEPT !.new_selection[i] = agent]
          [] OTHER -> st

RECURSIVE ManageAgents(_, _, _, _)
ManageAgents(rname, selection, st, i) ==
    IF i > Len(Left(rname)) \/ st.err # "none" THEN st
    ELSE ManageAgents(rname, selection, ManageAgent(rname, selection, st, i), i + 1)

\* a loop body that takes every partner it cannot realise as undetermined
ManageSiteLenient(rname, st, i, n) ==
    LET agent  == st.new_selection[i]
        r_site == Right(rname)[i].sites[n]
        ls     == r_site.link_state
    IN  IF n \notin DOMAIN st.M.obj[agent].sites THEN [st EXCEPT !.err = "KeyError"]
        ELSE CASE ls.kind = "site" ->
                    LET partner_idx == ls.ag
                        partner     == st.new_selection[partner_idx]
                    IN  IF ls.lab \notin DOMAIN st.M.obj[partner].sites
                        THEN [st EXCEPT !.err = "KeyError"]
                        ELSE [st EXCEPT !.U = connect_sites(@, st.M, <<agent, n>>,
                                                            <<partner, ls.lab>>)]
               [] ls.kind = "empty" ->
                    [st EXCEPT !.U = disconnect_site(@, st.M, <<agent, n>>)]
               [] OTHER -> st

\* "Manage explicitly referenced edges": one site of a right agent
ManageSite(rname, st, i, n) ==
    LET agent  == st.new_selection[i]
        r_site == Right(rname)[i].sites[n]
        ls     == r_site.link_state
    IN  IF n \notin DOMAIN st.M.obj[agent].sites THEN [st EXCEPT !.err = "KeyError"]
        ELSE CASE ls.kind = "site" ->
                    LET partner_idx == ls.ag
                        partner     == st.new_selection[partner_idx]
                    IN  IF ls.lab \notin DOMAIN st.M.obj[partner].sites
                        THEN [st EXCEPT !.err = "KeyError"]
                        ELSE [st EXCEPT !.U = connect_sites(@, st.M, <<agent, n>>,
                                                            <<partner, ls.lab>>)]
               [] ls.kind = "empty" ->
                    [st EXCEPT !.U = disconnect_site(@, st.M, <<agent, n>>)]
               [] ls.kind = "undet" -> st
               [] OTHER -> [st EXCEPT !.err = "TypeError"]

RECURSIVE ManageSites(_, _, _, _)
ManageSites(rname, st, i, names) ==
    IF names = << >> \/ st.err # "none" THEN st
    ELSE ManageSites(rname, ManageSite(rname, st, i, Head(names)), i, Tail(names))

RECURSIVE ManageEdges(_, _, _)
ManageEdges(rname, st, i) ==
    IF i > Len(Right(rname)) \/ st.err # "none" THEN st
    ELSE IF Right(rname)[i] = NoAgent THEN ManageEdges(rname, st, i + 1)
    ELSE ManageEdges(rname,
                     ManageSites(rname, st, i, SiteNames(Right(rname)[i])), i + 1)

_produce_update(rname, selection_map, M) ==
    LET selection == convert_selection_map(rname, selection_map)
        st0 == PRes(NoUpdate, M, [i \in DOMAIN selection |-> None], "none")
    IN  ManageEdges(rname, ManageAgents(rname, selection, st0, 1), 1)

\* ------------------------------------------------------------ n_embeddings
RECURSIVE SeqProd(_)
SeqProd(s) == IF s = << >> THEN 1 ELSE Head(s) * SeqProd(Tail(s))

RECURSIVE SetSum(_, _)
SetSum(f, S) ==
    IF S = {} THEN 0
    ELSE LET x == CHOOSE y \in S : TRUE IN f[x] + SetSum(f, S \ {x})

Image(e) == {e[x] : x \in DOMAIN e}

\* a count corrected for overlap: the draws whose images are pairwise disjoint
n_embeddings_disjoint(rname, M) ==
    LET choices == [k \in DOMAIN LeftComponents(rname) |->
                       fetch_embeddings(M, LeftComponents(rname)[k])]
    IN  Cardinality({picks \in [DOMAIN choices -> 1 .. MaxAgents + 1] :
                        /\ \A k \in DOMAIN choices : picks[k] <= Len(choices[k])
                        /\ \A j, k \in DOMAIN choices :
                              j # k => Image(choices[j][picks[j]])
                                       \cap Image(choices[k][picks[k]]) = {}})

\* KappaRule.n_embeddings_default
n_embeddings_default(rname, M) ==
    SeqProd([k \in DOMAIN LeftComponents(rname) |->
                Len(fetch_embeddings(M, LeftComponents(rname)[k]))])

\* the component_weights that n_embeddings_unimolecular leaves behind
UnimolecularWeights(rname, M) ==
    [component \in DOMAIN M.components |->
        SeqProd([k \in DOMAIN LeftComponents(rname) |->
                    Len(fetch_embeddings_in_component(M, LeftComponents(rname)[k],
                                                      component))])]

\* KappaRuleUnimolecular.n_embeddings_unimolecular
n_embeddings_unimolecular(rname, M) ==
    SetSum(UnimolecularWeights(rname, M), DOMAIN M.components)

\* the component_weights that KappaRuleBimolecular.n_embeddings leaves behind
BimolecularWeights(rname, M) ==
    LET match1 == LeftComponents(rname)[1]
        match2 == LeftComponents(rname)[2]
    IN  [component \in DOMAIN M.components |->
            LET n_match1 == Len(fetch_embeddings_in_component(M, match1, component))
                n_match2 == Len(fetch_embeddings(M, match2))
                            - Len(fetch_embeddings_in_component(M, match2, component))
            IN  n_match1 * n_match2]

\* KappaRuleBimolecular.n_embeddings
n_embeddings_bimolecular(rname, M) ==
    SetSum(BimolecularWeights(rname, M), DOMAIN M.components)

Weights(rname, M) ==
    IF rule_objects[rname].kind = "uni" THEN UnimolecularWeights(rname, M)
    ELSE BimolecularWeights(rname, M)

\* Rule.n_embeddings, by the class of the rule
n_embeddings(rname, M) ==
    CASE rule_objects[rname].kind = "default" -> n_embeddings_default(rname, M)
      [] rule_objects[rname].kind = "uni"     -> n_embeddings_unimolecular(rname, M)
      [] rule_objects[rname].kind = "bi"      -> n_embeddings_bimolecular(rname, M)

\* ------------------------------------------------------------------ select
\* A selection result: kind is "update" (selection_map is what goes to
\* _produce_update), "null" (None is returned) or "raise".  overlap records
\* whether the embeddings drawn for different left components had images
\* with a host agent in common.
SRes(kind, selection_map, err) ==
    [kind |-> kind, selection_map |-> selection_map, err |-> err, overlap |-> FALSE]

MapValues(f) == {f[x] : x \in DOMAIN f}

\* a loop that records the drawn embedding without looking for collisions
AddSelectionUnchecked(selection_map, component_selection, keys) ==
    SRes("update", selection_map @@ component_selection, "none")

\* "for agent in component_selection": stops at the first image already selected
RECURSIVE AddSelection(_, _, _)
AddSelection(selection_map, component_selection, keys) ==
    IF keys = << >> THEN SRes("update", selection_map, "none")
    ELSE IF component_selection[Head(keys)] \in MapValues(selection_map)
    THEN SRes("null", selection_map, "none")
    ELSE AddSelection(selection_map @@ (Head(keys) :> component_selection[Head(keys)]),
                      component_selection, Tail(keys))

\* the keys of an embedding in insertion order: the root first
RECURSIVE KeyOrderLoop(_, _, _)
KeyOrderLoop(c, embedding, agents) ==
    IF agents = << >> THEN << >>
    ELSE (IF Head(agents) \in DOMAIN embedding THEN <<Head(agents)>> ELSE << >>)
         \o KeyOrderLoop(c, embedding, Tail(agents))

KeyOrder(c, embedding) == KeyOrderLoop(c, embedding, CompAgents(c))

\* the loop of KappaRule.select and KappaRuleUnimolecular.select over the left
\* components; choices(k) is the list sampled for component k and picks[k]
\* the index random.choice draws
RECURSIVE SelectLoop(_, _, _, _, _)
SelectLoop(rname, choices, picks, k, selection_map) ==
    IF k > Len(LeftComponents(rname)) THEN SRes("update", selection_map, "none")
    ELSE IF Len(choices[k]) = 0 THEN SRes("raise", selection_map, "AssertionError")
    ELSE LET component_selection == choices[k][picks[k]]
             r == AddSelection(selection_map, component_selection,
                               KeyOrder(LeftComponents(rname)[k], component_selection))
         IN  IF r.kind # "update" THEN r
             ELSE SelectLoop(rname, choices, picks, k + 1, r.selection_map)

\* the embeddings random.choice drew for two different left components, both
\* reached by the loop, share a host agent
PickedOverlap(choices, picks) ==
    \E j, k \in DOMAIN choices :
        /\ j < k
        /\ \A i \in 1 .. k : Len(choices[i]) > 0
        /\ Image(choices[j][picks[j]]) \cap Image(choices[k][picks[k]]) # {}

WithOverlap(r, overlap) == [r EXCEPT !.overlap = overlap]

PickSpace(choices) ==
    LET limit == [k \in DOMAIN choices |->
                     IF Len(choices[k]) = 0 THEN 1 ELSE Len(choices[k])]
    IN  {picks \in [DOMAIN choices -> 1 .. SetSum(limit, DOMAIN choices)] :
            \A k \in DOMAIN choices : picks[k] <= limit[k]}

DefaultChoices(rname, M) ==
    [k \in DOMAIN LeftComponents(rname) |-> fetch_embeddings(M, LeftComponents(rname)[k])]

InComponentChoices(rname, M, selected_component) ==
    [k \in DOMAIN LeftComponents(rname) |->
        fetch_embeddings_in_component(M, LeftComponents(rname)[k], selected_component)]

\* ------------------------------------------------------------ random.choices
\* bisect(cum_weights, x, 0, hi): the binary search of the standard library
RECURSIVE Bisect(_, _, _, _)
Bisect(a, x, lo, hi) ==
    IF lo >= hi THEN lo
    ELSE LET mid == (lo + hi) \div 2
         IN  IF x < a[mid + 1] THEN Bisect(a, x, lo, mid) ELSE Bisect(a, x, mid + 1, hi)

RECURSIVE Accumulate(_)
Accumulate(w) ==
    IF Len(w) <= 1 THEN w
    ELSE LET front == Accumulate(SubSeq(w, 1, Len(w) - 1))
         IN  Append(front, front[Len(front)] + w[Len(w)])

\* the indices (from 1) random.choices(population, weights) can return; the
\* total of the weights is positive
Choices(w) ==
    LET cum == Accumulate(w)
    IN  {Bisect(cum, x, 0, Len(w) - 1) + 1 : x \in 0 .. cum[Len(cum)] - 1}

Perms(S) ==
    {f \in [1 .. Cardinality(S) -> S] : \A i, j \in DOMAIN f : f[i] = f[j] => i = j}

\* the outcomes of random.choices(components_ordered, weights)[0], whose
\* total is positive; components_ordered follows the iteration order of the
\* set mixture.components, which is any order
ChosenComponents(weights) ==
    UNION {{order[i] : i \in Choices([j \in DOMAIN order |-> weights[order[j]]])} :
              order \in Perms(DOMAIN weights)}

\* an empty population is an IndexError, a total that is not positive a
\* ValueError
ChoicesError(weights) ==
    IF DOMAIN weights = {} THEN "IndexError"
    ELSE IF SetSum(weights, DOMAIN weights) <= 0 THEN "ValueError"
    ELSE "none"

\* the sanity check that closes KappaRuleUnimolecular.select
SameComponent(M, selection_map) ==
    \A a, b \in MapValues(selection_map) :
        M.component_index[a] = M.component_index[b]

\* a sampler that returns any element of the population
RejectionValidAny(population, exclude) == DOMAIN population

\* rejection_sample of rule.py: the elements a fast draw can return
RejectionValid(population, exclude) ==
    {i \in DOMAIN population : population[i] \notin SeqRange(exclude)}

\* the fallback scan, reached when every fast draw fell on an excluded
\* element: "elem not in exclude_set" hashes the first element, a dict
RejectionFallback(population, exclude) ==
    IF RejectionValid(population, exclude) # DOMAIN population
    THEN {SRes("raise", << >>, "TypeError")} ELSE {}

\* the selections rule.select can make; weights is the rule's component_weights
SelectOutcomes(rname, M, weights) ==
    CASE rule_objects[rname].kind = "default" ->
            {WithOverlap(SelectLoop(rname, DefaultChoices(rname, M), picks, 1, << >>),
                         PickedOverlap(DefaultChoices(rname, M), picks)) :
                picks \in PickSpace(DefaultChoices(rname, M))}
      [] rule_objects[rname].kind = "uni" ->
            IF ChoicesError(weights) # "none"
            THEN {SRes("raise", << >>, ChoicesError(weights))}
            ELSE UNION {
                   {LET r == SelectLoop(rname, InComponentChoices(rname, M, selected),
                                        picks, 1, << >>)
                    IN  WithOverlap(
                          IF r.kind = "update" /\ ~SameComponent(M, r.selection_map)
                          THEN SRes("raise", r.selection_map, "AssertionError") ELSE r,
                          PickedOverlap(InComponentChoices(rname, M, selected), picks)) :
                       picks \in PickSpace(InComponentChoices(rname, M, selected))} :
                   selected \in ChosenComponents(weights)}
      [] rule_objects[rname].kind = "bi" ->
            IF ChoicesError(weights) # "none"
            THEN {SRes("raise", << >>, ChoicesError(weights))}
            ELSE UNION {
                   LET choices1   == fetch_embeddings_in_component(
                                         M, LeftComponents(rname)[1], selected)
                       population == fetch_embeddings(M, LeftComponents(rname)[2])
                       exclude    == fetch_embeddings_in_component(
                                         M, LeftComponents(rname)[2], selected)
                   IN  IF Len(choices1) = 0 THEN {SRes("raise", << >>, "IndexError")}
                       ELSE IF Len(population) = 0 THEN {SRes("raise", << >>, "ValueError")}
                       ELSE RejectionFallback(population, exclude)
                            \cup {WithOverlap(
                                SRes("update", population[j] @@ choices1[i], "none"),
                                Image(choices1[i]) \cap Image(population[j]) # {}) :
                                i \in DOMAIN choices1,
                                j \in RejectionValid(population, exclude)} :
                   selected \in ChosenComponents(weights)}

\* what select followed by apply_update can do.  kind is "applied", "null",
\* "raise_select" (select raised) or "raise_apply" (apply_update raised)
Outcome(kind, M, err, U) ==
    [kind |-> kind, M |-> M, err |-> err, U |-> U, overlap |-> FALSE]

AppliedOutcome(U, r) ==
    Outcome(IF r.err = "none" THEN "applied" ELSE "raise_apply", r.M, r.err, U)

ProducedOutcomes(pu) ==
    IF pu.err # "none" THEN {Outcome("raise_select", pu.M, pu.err, pu.U)}
    ELSE {AppliedOutcome(pu.U, apply_update(pu.M, pu.U, removals, additions)) :
             removals \in Perms(pu.U.edges_to_remove),
             additions \in Perms(pu.U.edges_to_add)}

ApplyOutcomes(rname, M, sel) ==
    ProducedOutcomes(_produce_update(rname, sel.selection_map, M))

MarkOverlap(outcomes, overlap) == {[o EXCEPT !.overlap = overlap] : o \in outcomes}

RuleOutcomes(rname, M, weights) ==
    UNION {MarkOverlap(
             CASE sel.kind = "update" -> ApplyOutcomes(rname, M, sel)
               [] sel.kind = "null"   -> {Outcome("null", M, "none", NoUpdate)}
               [] sel.kind = "raise"  -> {Outcome("raise_select", M, sel.err, NoUpdate)},
             sel.overlap) :
           sel \in SelectOutcomes(rname, M, weights)}

\* ------------------------------------------------------------- instantiate
Types == {"A", "B"}

Pos(seq, x) == CHOOSE i \in DOMAIN seq : seq[i] = x

\* Pattern.underspecified
underspecified(pname) ==
    \E i \in DOMAIN patterns[pname].agents :
        \/ patterns[pname].agents[i] = NoAgent
        \/ \E n \in DOMAIN patterns[pname].agents[i].sites :
              LET site == patterns[pname].agents[i].sites[n]
              IN  \/ site.internal_state = WildCardInternal
                  \/ site.link_state.kind \in {"wild", "bound", "sitetype"}

\* Mixture._instantiate_component (mixture.py): the copies get consecutive
\* ids, the bonds of the component are duplicated between the copies, and the
\* copies form one new Component; the embedding indices are not touched
_instantiate_component(M, pname, component) ==
    LET p       == patterns[pname].agents
        IdOf(a) == M.nonce + Pos(component, a) - 1
        new_agents == [i \in DOMAIN component |-> IdOf(component[i])]
        NewObj(a) ==
            Agent(p[a].type,
                  [n \in DOMAIN p[a].sites |->
                      Site(p[a].sites[n].internal_state,
                           IF IsSite(p[a].sites[n].link_state)
                           THEN SiteRef(IdOf(p[a].sites[n].link_state.ag),
                                        p[a].sites[n].link_state.lab)
                           ELSE EmptyState)])
        new_component == NewComponent(M)
    IN  [M EXCEPT
           !.nonce = @ + Len(component),
           !.obj = [id \in SeqRange(new_agents) |-> NewObj(component[Pos(new_agents, id)])] @@ @,
           !.agents = @ \cup SeqRange(new_agents),
           !.components = @ @@ (new_component :> SeqRange(new_agents)),
           !.agents_by_type =
               [t \in Types |->
                   @[t] \o SelectSeq(new_agents, LAMBDA id : p[component[Pos(new_agents, id)]].type = t)],
           !.component_index = [id \in SeqRange(new_agents) |-> new_component] @@ @]

RECURSIVE InstantiateLoop(_, _, _)
InstantiateLoop(M, pname, components) ==
    IF components = << >> THEN M
    ELSE InstantiateLoop(_instantiate_component(M, pname, Head(components)),
                         pname, Tail(components))

\* Mixture.instantiate
instantiate(M, pname) == InstantiateLoop(M, pname, patterns[pname].components)

RECURSIVE TrackLoop(_, _)
TrackLoop(M, cs) ==
    IF cs = << >> THEN M
    ELSE TrackLoop(track_component_pattern(M, Head(cs)), Tail(cs))

RECURSIVE RuleComponents(_)
RuleComponents(rules) ==
    IF rules = << >> THEN << >>
    ELSE LeftComponents(Head(rules)) \o RuleComponents(Tail(rules))

RECURSIVE ObservableComponents(_)
ObservableComponents(observables) ==
    IF observables = << >> THEN << >>
    ELSE <<Comp(Head(observables), 1)>> \o ObservableComponents(Tail(observables))

\* System.set_mixture: every left component of every rule is tracked, then
\* every observable
set_mixture(M, rules, observables) ==
    TrackLoop(M, RuleComponents(rules) \o ObservableComponents(observables))

\* ------------------------------------------- Component.embeddings (pattern.py)
\* The second matcher, on the same mixture record (state = internal_state,
\* partner = link_state).
stated(site)  == site.internal_state \notin {WildCardInternal, UndeterminedInternal}
bound(site)   == site.link_state.kind \in {"bound", "sitetype", "site"}
coupled(site) == IsSite(site.link_state)

\* Site.embeds_in: self is the site of pattern agent a of c, other a host site
SiteEmbedsIn(M, c, self, other) ==
    IF \/ stated(self) /\ self.internal_state # other.internal_state
       \/ bound(self) /\ ~coupled(other)
    THEN FALSE
    ELSE CASE self.link_state.kind = "empty" -> other.link_state.kind = "empty"
           [] self.link_state.kind = "sitetype" ->
                /\ self.link_state.lab = other.link_state.lab
                /\ self.link_state.tn = TypeOf(M, other.link_state.ag)
           [] self.link_state.kind = "site" ->
                \* "self.label == other.label" compares the two sites' own labels
                CompAgent(c, self.link_state.ag).type = TypeOf(M, other.link_state.ag)
           [] OTHER -> TRUE

\* Agent.embeds_in: "true", "false" or "KeyError"
RECURSIVE AgentEmbedsLoop(_, _, _, _, _)
AgentEmbedsLoop(M, c, a, b, names) ==
    IF names = << >> THEN "true"
    ELSE LET a_site == CompAgent(c, a).sites[Head(names)]
         IN  IF Head(names) \notin DOMAIN M.obj[b].sites
             THEN IF ~undetermined(a_site) THEN "false" ELSE "KeyError"
             ELSE IF ~SiteEmbedsIn(M, c, a_site, M.obj[b].sites[Head(names)])
             THEN "false"
             ELSE AgentEmbedsLoop(M, c, a, b, Tail(names))

AgentEmbedsIn(M, c, a, b) ==
    IF CompAgent(c, a).type # TypeOf(M, b) THEN "false"
    ELSE AgentEmbedsLoop(M, c, a, b, SiteNames(CompAgent(c, a)))

\* "for a_site in a" of Component.embeddings
RECURSIVE EmbSites(_, _, _, _, _, _, _)
EmbSites(M, c, a, b, names, agent_map, frontier) ==
    IF names = << >> THEN FeResult(FALSE, FALSE, agent_map, frontier)
    ELSE LET a_site == CompAgent(c, a).sites[Head(names)]
             b_site == M.obj[b].sites[Head(names)]
         IN  IF ~coupled(a_site)
             THEN EmbSites(M, c, a, b, Tail(names), agent_map, frontier)
             ELSE LET a_partner == a_site.link_state.ag
                      b_partner == b_site.link_state.ag
                  IN  IF b_partner \notin M.agents
                      THEN FeResult(TRUE, FALSE, agent_map, frontier)
                      ELSE IF a_partner \notin DOMAIN agent_map
                      THEN EmbSites(M, c, a, b, Tail(names),
                                    agent_map @@ (a_partner :> b_partner),
                                    frontier \cup {a_partner})
                      ELSE IF agent_map[a_partner] # b_partner
                      THEN FeResult(TRUE, FALSE, agent_map, frontier)
                      ELSE EmbSites(M, c, a, b, Tail(names), agent_map, frontier)

RECURSIVE EmbWhile(_, _, _, _)
EmbWhile(M, c, agent_map, frontier) ==
    IF frontier = {} THEN FeResult(FALSE, FALSE, agent_map, frontier)
    ELSE LET a == Min(frontier)
             b == agent_map[a]
             m == AgentEmbedsIn(M, c, a, b)
         IN  IF m # "true" THEN FeResult(TRUE, m = "KeyError", agent_map, frontier)
             ELSE LET r == EmbSites(M, c, a, b, SiteNames(CompAgent(c, a)),
                                    agent_map, frontier \ {a})
                  IN  IF r.failed THEN r ELSE EmbWhile(M, c, r.agent_map, r.frontier)

RECURSIVE EmbRoots(_, _, _)
EmbRoots(M, c, b_roots) ==
    IF b_roots = << >> THEN << >>
    ELSE LET a_root == CompAgents(c)[1]
             r == EmbWhile(M, c, (a_root :> Head(b_roots)), {a_root})
         IN  (IF r.failed THEN << >> ELSE <<r.agent_map>>) \o EmbRoots(M, c, Tail(b_roots))

\* Component.embeddings(mixture), exact = False
embeddings(M, c) ==
    EmbRoots(M, c, SelectSeq(M.agents_by_type[CompAgent(c, CompAgents(c)[1]).type],
                             LAMBDA b : b \in M.agents))

\* Agent.isomorphic on two agent records: "true", "false" or "KeyError"
\* (b_sites_leftover.remove of a site name that other does not have)
RECURSIVE AgentIsomorphicLoop(_, _, _)
AgentIsomorphicLoop(self, other, names) ==
    IF names = << >>
    THEN IF \A site_name \in DOMAIN other.sites \ DOMAIN self.sites :
                undetermined(other.sites[site_name])
         THEN "true" ELSE "false"
    ELSE LET site_name == Head(names)
             a_site == self.sites[site_name]
         IN  IF site_name \notin DOMAIN other.sites
             THEN IF ~undetermined(a_site) THEN "false" ELSE "KeyError"
             ELSE IF a_site.internal_state # other.sites[site_name].internal_state
             THEN "false"
             ELSE AgentIsomorphicLoop(self, other, Tail(names))

AgentIsomorphic(self, other) ==
    IF self.type # other.type THEN "false"
    ELSE AgentIsomorphicLoop(self, other, SiteNames(self))

\* the state of one root of Component.embeddings(other, exact=True)
ExResult(failed, err, agent_map, frontier) ==
    [failed |-> failed, err |-> err, agent_map |-> agent_map, frontier |-> frontier]

\* "for a_site in a" of Component.embeddings with exact = True, other a
\* component d; b_site.partner.agent of a site that is not coupled is an
\* AttributeError
RECURSIVE ExactSites(_, _, _, _, _, _, _)
ExactSites(c, d, a, b, names, agent_map, frontier) ==
    IF names = << >> THEN ExResult(FALSE, "none", agent_map, frontier)
    ELSE LET a_site == CompAgent(c, a).sites[Head(names)]
             b_site == CompAgent(d, b).sites[Head(names)]
         IN  IF coupled(a_site)
             THEN IF ~coupled(b_site)
                  THEN ExResult(TRUE, "AttributeError", agent_map, frontier)
                  ELSE LET a_partner == a_site.link_state.ag
                           b_partner == b_site.link_state.ag
                       IN  IF b_partner \notin SeqRange(CompAgents(d))
                           THEN ExResult(TRUE, "none", agent_map, frontier)
                           ELSE IF a_partner \notin DOMAIN agent_map
                           THEN ExactSites(c, d, a, b, Tail(names),
                                           agent_map @@ (a_partner :> b_partner),
                                           frontier \cup {a_partner})
                           ELSE IF agent_map[a_partner] # b_partner
                           THEN ExResult(TRUE, "none", agent_map, frontier)
                           ELSE ExactSites(c, d, a, b, Tail(names), agent_map, frontier)
             ELSE IF a_site.link_state # b_site.link_state
             THEN ExResult(TRUE, "none", agent_map, frontier)
             ELSE ExactSites(c, d, a, b, Tail(names), agent_map, frontier)

RECURSIVE ExactWhile(_, _, _, _)
ExactWhile(c, d, agent_map, frontier) ==
    IF frontier = {} THEN ExResult(FALSE, "none", agent_map, frontier)
    ELSE LET a == Min(frontier)
             b == agent_map[a]
             m == AgentIsomorphic(CompAgent(c, a), CompAgent(d, b))
         IN  IF m # "true"
             THEN ExResult(TRUE, IF m = "false" THEN "none" ELSE m, agent_map, frontier)
             ELSE LET r == ExactSites(c, d, a, b, SiteNames(CompAgent(c, a)),
                                      agent_map, frontier \ {a})
                  IN  IF r.failed THEN r ELSE ExactWhile(c, d, r.agent_map, r.frontier)

\* what a generator gave: the maps it yielded and the exception that ended
\* it, or "none"
Yielded(maps, err) == [maps |-> maps, err |-> err]

RECURSIVE ExactRoots(_, _, _, _)
ExactRoots(c, d, b_roots, maps) ==
    IF b_roots = << >> THEN Yielded(maps, "none")
    ELSE LET a_root == CompAgents(c)[1]
             r == ExactWhile(c, d, (a_root :> Head(b_roots)), {a_root})
         IN  IF r.err # "none" THEN Yielded(maps, r.err)
             ELSE ExactRoots(c, d, Tail(b_roots),
                             IF r.failed THEN maps ELSE Append(maps, r.agent_map))

\* Component.embeddings(other, exact=True) for a component other; roots are
\* tried in the order of other's agents
exact_embeddings(c, d) ==
    ExactRoots(c, d,
               SelectSeq(CompAgents(d),
                         LAMBDA b : CompAgent(d, b).type = CompAgent(c, CompAgents(c)[1]).type),
               << >>)

\* Component.isomorphisms
isomorphisms(c, d) ==
    IF Len(CompAgents(c)) # Len(CompAgents(d)) THEN Yielded(<< >>, "none")
    ELSE exact_embeddings(c, d)

\* Component.isomorphic: next() takes the first map the generator yields;
\* "true", "false" or the exception raised before any map was yielded
FirstOrNone(y) ==
    IF y.maps # << >> THEN "true" ELSE IF y.err # "none" THEN y.err ELSE "false"

isomorphic(c, d) == FirstOrNone(isomorphisms(c, d))

\* ----------------------------------------------------------- the program
\* --------------------------------------------------------- indexed_set.py
\* An IndexedSet is the built-in set (members) with the integer index
\* (_item_list, _item_to_pos, positions counted from 0), the registered
\* properties in the order of their creation and, for each, the defaultdict
\* from a value to its bucket.  A bucket is an IndexedSet without properties.
MaxItem == 3
Items   == 1 .. MaxItem

IxRes(S, err) == [S |-> S, err |-> err]

\* IndexedSet.__init__: the set drops the repeats of the iterable, the list
\* keeps them, and the position of an item is that of its last occurrence
IndexedSet__init__(iterable) ==
    [members      |-> SeqRange(iterable),
     _item_list   |-> iterable,
     _item_to_pos |-> [x \in SeqRange(iterable) |->
                          Max({i \in DOMAIN iterable : iterable[i] = x}) - 1],
     properties   |-> << >>,
     indices      |-> << >>]

\* the properties the callers register: Property(lambda x: x % 2),
\* Property(lambda x: x // 2, is_unique=True) and
\* SetProperty(lambda x: [x, 4 - x])
IndexTable ==
    [ parity |-> [is_unique |-> FALSE],
      half   |-> [is_unique |-> TRUE],
      near   |-> [is_unique |-> FALSE] ]

\* SetProperty.__call__ and Property.__call__: the values of an item
PropertyCall(name, item) ==
    CASE name = "parity"  -> <<item % 2>>
      [] name = "half"    -> <<item \div 2>>
      [] name = "near"    -> <<item, 4 - item>>

\* "Update integer index" of add
IntegerIndexAdd(S, item) ==
    [S EXCEPT !.members = @ \cup {item},
              !._item_list = Append(@, item),
              !._item_to_pos = [x \in DOMAIN @ \cup {item} |->
                                   IF x = item THEN Len(S._item_list) ELSE @[x]]]

\* "Update integer index" of remove: swap the last item into the vacated slot
IntegerIndexRemove(S, item) ==
    IF item \notin DOMAIN S._item_to_pos
    THEN IxRes([S EXCEPT !.members = @ \ {item}], "KeyError")
    ELSE IF S._item_list = << >>
    THEN IxRes([S EXCEPT !.members = @ \ {item},
                         !._item_to_pos = Restrict(@, DOMAIN @ \ {item})], "IndexError")
    ELSE
    LET pos       == S._item_to_pos[item]
        popped    == Restrict(S._item_to_pos, DOMAIN S._item_to_pos \ {item})
        last_item == S._item_list[Len(S._item_list)]
        shorter   == SubSeq(S._item_list, 1, Len(S._item_list) - 1)
    IN  IF pos = Len(shorter)
        THEN IxRes([S EXCEPT !.members = @ \ {item}, !._item_list = shorter,
                             !._item_to_pos = popped], "none")
        ELSE IF pos > Len(shorter)
        THEN IxRes([S EXCEPT !.members = @ \ {item}, !._item_list = shorter,
                             !._item_to_pos = popped], "IndexError")
        ELSE IxRes([S EXCEPT !.members = @ \ {item},
                             !._item_list = [shorter EXCEPT ![pos + 1] = last_item],
                             !._item_to_pos = [x \in DOMAIN popped \cup {last_item} |->
                                                  IF x = last_item THEN pos ELSE popped[x]]],
                   "none")

\* self.indices[name][val] on the defaultdict(IndexedSet): a missing bucket is
\* created empty
Bucket(S, name, val) ==
    IF val \in DOMAIN S.indices[name] THEN S.indices[name][val]
    ELSE IndexedSet__init__(<< >>)

SetBucket(S, name, val, bucket) ==
    [S EXCEPT !.indices[name] =
        [v \in DOMAIN @ \cup {val} |-> IF v = val THEN bucket ELSE @[v]]]

DelBucket(S, name, val) ==
    [S EXCEPT !.indices[name] = Restrict(@, DOMAIN @ \ {val})]

\* the <<property, value>> pairs "for prop_name in self.properties: for val
\* in prop(item)" goes through
RECURSIVE PropertyPairs(_, _)
PropertyPairs(names, item) ==
    IF names = << >> THEN << >>
    ELSE [i \in DOMAIN PropertyCall(Head(names), item) |->
             <<Head(names), PropertyCall(Head(names), item)[i]>>]
         \o PropertyPairs(Tail(names), item)

\* "Update property indices" of add and the loop of create_index; the add on
\* the bucket asserts that the item is not in it yet
RECURSIVE IndexAdd(_, _, _)
IndexAdd(S, item, pairs) ==
    IF pairs = << >> THEN IxRes(S, "none")
    ELSE LET name   == Head(pairs)[1]
             val    == Head(pairs)[2]
             bucket == Bucket(S, name, val)
         IN  IF IndexTable[name].is_unique /\ bucket.members # {}
             THEN IxRes(SetBucket(S, name, val, bucket), "AssertionError")
             ELSE IF item \in bucket.members
             THEN IxRes(SetBucket(S, name, val, bucket), "AssertionError")
             ELSE IndexAdd(SetBucket(S, name, val, IntegerIndexAdd(bucket, item)),
                           item, Tail(pairs))

\* "Update property indices" of remove
RECURSIVE IndexRemove(_, _, _)
IndexRemove(S, item, pairs) ==
    IF pairs = << >> THEN IxRes(S, "none")
    ELSE LET name   == Head(pairs)[1]
             val    == Head(pairs)[2]
             bucket == Bucket(S, name, val)
         IN  IF item \notin bucket.members
             THEN IxRes(SetBucket(S, name, val, bucket), "AssertionError")
             ELSE LET r == IntegerIndexRemove(bucket, item)
                  IN  IF r.err # "none" THEN IxRes(SetBucket(S, name, val, r.S), r.err)
                      ELSE IndexRemove(IF r.S.members = {} THEN DelBucket(S, name, val)
                                       ELSE SetBucket(S, name, val, r.S),
                                       item, Tail(pairs))

\* IndexedSet.add
IndexedSet_add(S, item) ==
    IF item \in S.members THEN IxRes(S, "AssertionError")
    ELSE IndexAdd(IntegerIndexAdd(S, item), item, PropertyPairs(S.properties, item))

\* a remove that leaves the property indices as they are
IndexedSet_remove_unindexed(S, item) ==
    IF item \notin S.members THEN IxRes(S, "AssertionError")
    ELSE IntegerIndexRemove(S, item)

\* IndexedSet.remove
IndexedSet_remove(S, item) ==
    IF item \notin S.members THEN IxRes(S, "AssertionError")
    ELSE LET r == IntegerIndexRemove(S, item)
         IN  IF r.err # "none" THEN r
             ELSE IndexRemove(r.S, item, PropertyPairs(S.properties, item))

\* IndexedSet.create_index: "for el in self" taken in ascending order
RECURSIVE CreateIndexLoop(_, _, _)
CreateIndexLoop(S, name, els) ==
    IF els = << >> THEN IxRes(S, "none")
    ELSE LET r == IndexAdd(S, Head(els), PropertyPairs(<<name>>, Head(els)))
         IN  IF r.err # "none" THEN r ELSE CreateIndexLoop(r.S, name, Tail(els))

Ascending(set) == CHOOSE seq \in Perms(set) : \A i, j \in DOMAIN seq : i < j => seq[i] < seq[j]

create_index(S, name) ==
    IF name \in SeqRange(S.properties) THEN IxRes(S, "AssertionError")
    ELSE CreateIndexLoop([S EXCEPT !.properties = Append(@, name),
                                   !.indices = [n \in DOMAIN @ \cup {name} |->
                                                   IF n = name THEN << >> ELSE @[n]]],
                         name, Ascending(S.members))

\* IndexedSet.lookup: the set after the read of the defaultdict, and the
\* answer, a member for a unique property and the bucket for the others
lookup(S, name, value) ==
    LET matches == Bucket(S, name, value)
        S1      == SetBucket(S, name, value, matches)
    IN  IF IndexTable[name].is_unique
        THEN IF Cardinality(matches.members) # 1
             THEN [S |-> S1, err |-> "AssertionError", answer |-> << >>]
             ELSE [S |-> S1, err |-> "none",
                   answer |-> <<CHOOSE x \in matches.members : TRUE>>]
        ELSE [S |-> S1, err |-> "none", answer |-> <<matches.members>>]

\* IndexedSet.__getitem__
IndexedSet__getitem__(S, i) ==
    IF ~(0 <= i /\ i < Cardinality(S.members)) THEN [err |-> "AssertionError", answer |-> << >>]
    ELSE [err |-> "none", answer |-> <<S._item_list[i + 1]>>]

vars == <<indexed_set, patterns, rule_objects, mixture, component_weights, system, error, last>>

EmptyMixture ==
    [agents |-> {}, obj |-> << >>, components |-> << >>, component_index |-> << >>,
     agents_by_type |-> [t \in Types |-> << >>], nonce |-> 0,
     match_cache |-> << >>, match_cache_by_component |-> << >>]

Observables == <<"obsPB", "obsRR">>

AllRules == <<"bind", "unbind", "conv", "fold", "ambi_bi", "ambi_uni">>
RuleLists == {AllRules, <<"bind", "unbind", "conv">>, << >>}

\* the last call: the operation, the rule it ran, how the rule's step ended,
\* whether apply_update returned, and whether the embeddings select drew for
\* different left components overlapped
Last(op, rule, kind, updated, overlap) ==
    [op |-> op, rule |-> rule, kind |-> kind, updated |-> updated, overlap |-> overlap,
     query |-> << >>, returned |-> << >>]

\* a call that answers a query: the components asked about and what came
\* back, a one-element sequence, or none when the call raised
Answer(op, query, returned) ==
    [Last(op, "", "", FALSE, FALSE) EXCEPT !.query = query, !.returned = returned]

Init ==
    /\ patterns = [p \in PatternNames |->
                      [agents |-> PatternTable[p], components |-> PatternComponents(p)]]
    /\ rule_objects = RuleTable
    /\ mixture = EmptyMixture
    /\ component_weights = [r \in RuleNames |-> << >>]
    /\ system = [constructed |-> FALSE, rules |-> << >>,
                 tallies |-> [r \in RuleNames |-> [applied |-> 0, failed |-> 0]],
                 cached |-> FALSE, rule_reactivities |-> << >>, time |-> 0,
                 observables |-> << >>]
    /\ error = "none"
    /\ last = Last("init", "", "", FALSE, FALSE)
    /\ indexed_set = IndexedSet__init__(<< >>)

\* mixture.instantiate(pattern) on the mixture the system will be built on
Instantiate(pname) ==
    /\ error = "none"
    /\ ~system.constructed
    /\ Cardinality(mixture.agents) + Len(patterns[pname].agents) <= MaxAgents
    /\ mixture' = instantiate(mixture, pname)
    /\ last' = Last("instantiate", pname, "", FALSE, FALSE)
    /\ UNCHANGED <<indexed_set, patterns, rule_objects, component_weights, system, error>>

\* the last call was made on the rule or the mixture directly; the run is
\* followed no further
DirectCall == last.op \in {"select", "apply_update"}

\* System(mixture, rules, observables)
Construct(rules, observables) ==
    /\ error = "none"
    /\ ~system.constructed
    /\ mixture' = set_mixture(mixture, rules, observables)
    /\ system' = [system EXCEPT !.constructed = TRUE, !.rules = rules,
                                !.observables = observables]
    /\ last' = Last("construct", "", "", FALSE, FALSE)
    /\ UNCHANGED <<indexed_set, patterns, rule_objects, component_weights, error>>

TotalTallies ==
    SetSum([r \in RuleNames |-> system.tallies[r].applied + system.tallies[r].failed],
           RuleNames)

\* rule.n_embeddings(mixture) called on a rule of the system: the unimolecular
\* and bimolecular classes rewrite their component_weights
NEmbeddings(rname) ==
    /\ error = "none"
    /\ system.constructed
    /\ ~DirectCall
    /\ rname \in SeqRange(system.rules)
    /\ rule_objects[rname].kind # "default"
    /\ component_weights' = [component_weights EXCEPT ![rname] = Weights(rname, mixture)]
    /\ last' = Last("n_embeddings", rname, "", FALSE, FALSE)
    /\ UNCHANGED <<indexed_set, patterns, rule_objects, mixture, system, error>>

\* the body of System.apply_rule, on the System fields sys and the
\* component_weights it finds
ApplyRuleBody(op, rname, sys, weights) ==
    \E o \in RuleOutcomes(rname, mixture, weights[rname]) :
        /\ mixture' = o.M
        /\ UNCHANGED <<indexed_set, patterns, rule_objects>>
        /\ component_weights' = weights
        /\ last' = Last(op, rname, o.kind, o.kind = "applied", o.overlap)
        /\ CASE o.kind = "applied" ->
                  /\ system' = [sys EXCEPT !.tallies[rname].applied = @ + 1,
                                           !.cached = FALSE]
                  \* del self.__dict__["rule_reactivities"]
                  /\ error' = IF sys.cached THEN "none" ELSE "KeyError"
             [] o.kind = "null" ->
                  /\ system' = [sys EXCEPT !.tallies[rname].failed = @ + 1]
                  /\ error' = "none"
             [] o.kind = "raise_select" ->
                  /\ system' = sys
                  /\ error' = o.err
             [] o.kind = "raise_apply" ->
                  /\ system' = [sys EXCEPT !.tallies[rname].applied = @ + 1]
                  /\ error' = o.err

\* System.apply_rule(rule)
ApplyRule(rname) ==
    /\ error = "none"
    /\ system.constructed
    /\ ~DirectCall
    /\ rname \in SeqRange(system.rules)
    /\ TotalTallies < MaxTally
    /\ ApplyRuleBody("apply_rule", rname, system, component_weights)

\* reactivities that are read without n_embeddings being called on the rules
ReactivityWeightsStale == component_weights

\* the component_weights after the rules' reactivities have been read
ReactivityWeights ==
    [r \in RuleNames |->
        IF ~system.cached /\ r \in SeqRange(system.rules) /\ rule_objects[r].kind # "default"
        THEN Weights(r, mixture) ELSE component_weights[r]]

\* System.rule_reactivities (every rate is 1)
rule_reactivities ==
    IF system.cached THEN system.rule_reactivities
    ELSE [i \in DOMAIN system.rules |-> n_embeddings(system.rules[i], mixture)]

reactivity == SetSum(rule_reactivities, DOMAIN rule_reactivities)

\* the System once the cached_property has been read
Cached == [system EXCEPT !.cached = TRUE, !.rule_reactivities = rule_reactivities]

\* System.wait(): time += random.expovariate(reactivity).  The increment has
\* the sign of the reactivity and is kept as one tick; a reactivity of zero
\* is the ZeroDivisionError that wait catches
wait(sys, total) ==
    [sys EXCEPT !.time = IF total > 0 THEN @ + 1 ELSE IF total < 0 THEN @ - 1 ELSE @]

\* System.choose_rule(): the exception random.choices(rules, weights) raises:
\* an IndexError on an empty rule list, which choose_rule does not catch, a
\* ValueError, which it does, on a total that is not positive
ChooseRuleError(rules, total) ==
    IF rules = << >> THEN "IndexError"
    ELSE IF total <= 0 THEN "ValueError"
    ELSE "none"

\* System.update(): wait fills the cache and advances the clock, choose_rule
\* draws by the cached reactivities (None when random.choices raises
\* ValueError), apply_rule
SystemUpdate ==
    /\ error = "none"
    /\ system.constructed
    /\ LET Step(sys, total, weights) ==
             CASE ChooseRuleError(sys.rules, total) = "IndexError" ->
                     /\ system' = sys
                     /\ component_weights' = weights
                     /\ error' = "IndexError"
                     /\ last' = Last("update", "", "raise_choose", FALSE, FALSE)
                     /\ UNCHANGED <<indexed_set, patterns, rule_objects, mixture>>
               [] ChooseRuleError(sys.rules, total) = "ValueError" ->
                     /\ sys.time > -MaxTally
                     /\ system' = sys
                     /\ component_weights' = weights
                     /\ last' = Last("update", "", "none", FALSE, FALSE)
                     /\ UNCHANGED <<indexed_set, patterns, rule_objects, mixture, error>>
               [] OTHER ->
                     \E i \in Choices(sys.rule_reactivities) :
                         ApplyRuleBody("update", sys.rules[i], sys, weights)
       IN  Step(wait(Cached, reactivity), reactivity, ReactivityWeights)

\* system.update(), while the tallies are below their bound
Update == TotalTallies < MaxTally /\ ~DirectCall /\ SystemUpdate

\* update = rule.select(system.mixture), called by hand on a system that has
\* not run yet; what _produce_update did to the mixture's agents stays done
Select(rname) ==
    /\ error = "none"
    /\ system.constructed
    /\ ~DirectCall
    /\ TotalTallies = 0
    /\ rname \in SeqRange(system.rules)
    /\ \E sel \in SelectOutcomes(rname, mixture, component_weights[rname]) :
          CASE sel.kind = "update" ->
                  LET Produced(pu) ==
                        /\ mixture' = pu.M
                        /\ error' = pu.err
                        /\ last' = IF pu.err # "none"
                                   THEN Last("select", rname, "raise_select", FALSE, sel.overlap)
                                   ELSE [Last("select", rname, "selected", FALSE, sel.overlap)
                                            EXCEPT !.returned = <<pu.U>>]
                  IN  Produced(_produce_update(rname, sel.selection_map, mixture))
            [] sel.kind = "null" ->
                  /\ last' = Last("select", rname, "null", FALSE, sel.overlap)
                  /\ UNCHANGED <<mixture, error>>
            [] sel.kind = "raise" ->
                  /\ last' = Last("select", rname, "raise_select", FALSE, sel.overlap)
                  /\ error' = sel.err
                  /\ UNCHANGED mixture
    /\ UNCHANGED <<indexed_set, patterns, rule_objects, component_weights, system>>

\* the updates a caller builds by hand with MixtureUpdate's methods on two
\* sites of different agents: connect_sites alone, or after remove_agent of
\* the first site's agent
HandBuiltUpdates(M) ==
    LET sites == {site \in M.agents \X SeqRange(LabelOrder) :
                     site[2] \in DOMAIN M.obj[site[1]].sites}
        pairs == {p \in sites \X sites : p[1][1] # p[2][1]}
        Removal(p) == remove_agent(NoUpdate, M, p[1][1])
    IN  {connect_sites(NoUpdate, M, p[1], p[2]) : p \in pairs}
        \cup {connect_sites(Removal(p).U, M, p[1], p[2]) :
                 p \in {q \in pairs : Removal(q).err = "none"}}

\* mixture.apply_update(update), called by hand on a system that has not run
\* yet
ApplyUpdate ==
    /\ error = "none"
    /\ system.constructed
    /\ ~DirectCall
    /\ TotalTallies = 0
    /\ \E update \in HandBuiltUpdates(mixture) :
          \E removals \in Perms(update.edges_to_remove),
             additions \in Perms(update.edges_to_add) :
             LET Applied(r) ==
                   /\ mixture' = r.M
                   /\ error' = r.err
                   /\ last' = Last("apply_update", "",
                                   IF r.err = "none" THEN "applied" ELSE "raise_apply",
                                   r.err = "none", FALSE)
             IN  Applied(apply_update(mixture, update, removals, additions))
    /\ UNCHANGED <<indexed_set, patterns, rule_objects, component_weights, system>>

Next ==
    \/ \E pname \in InitPatterns : Instantiate(pname)
    \/ \E rules \in RuleLists : Construct(rules, Observables)
    \/ \E rname \in RuleNames : NEmbeddings(rname)
    \/ \E rname \in RuleNames : ApplyRule(rname)
    \/ Update
    \/ \E rname \in RuleNames : Select(rname)
    \/ ApplyUpdate

Spec == Init /\ [][Next]_vars

\* System._eval_observable for an observable that is one component
_eval_observable(pname) == Len(fetch_embeddings(mixture, Comp(pname, 1)))

\* ------------------------------------------------- the dimer scenarios
\* The runs of the rule tests: copies of one pattern are instantiated, a
\* System is built on the mixture with a single rule and its observables, and
\* the system is updated until nothing is left to apply.
Scenarios ==
    [ dimer  |-> [rules |-> <<"unbindAB">>, observables |-> <<"dimer", "obsA", "obsB">>],
      freeAB |-> [rules |-> <<"bindAB">>,   observables |-> <<"dimer">>] ]

\* mixture.instantiate(pattern), once per copy, all copies of one pattern
InstantiateCopy(pname) ==
    /\ error = "none"
    /\ ~system.constructed
    /\ mixture.agents = {} \/ last.rule = pname
    /\ Cardinality(mixture.agents) < 2 * MaxCopies
    /\ mixture' = instantiate(mixture, pname)
    /\ last' = Last("instantiate", pname, "", FALSE, FALSE)
    /\ UNCHANGED <<indexed_set, patterns, rule_objects, component_weights, system, error>>

\* System(mixture, [rule], observables) on the copies instantiated so far
SetUp ==
    /\ mixture.agents # {}
    /\ last.op = "instantiate"
    /\ Construct(Scenarios[last.rule].rules, Scenarios[last.rule].observables)

\* the components a test asks the system to count
QueryComponents == {Comp("dimer", 1), Comp("freeAB", 1), Comp("obsB", 1)}

\* System.count_observable(obs): mixture.match_cache is a defaultdict(list),
\* so the lookup of a component that is not tracked adds it with an empty
\* list and returns that list; no KeyError leads to the handler that looks
\* for an isomorphic observable
CountObservable(obs) ==
    /\ error = "none"
    /\ system.constructed
    /\ mixture' = [mixture EXCEPT !.match_cache =
                      IF obs \in DOMAIN @ THEN @ ELSE @ @@ (obs :> << >>)]
    /\ last' = Answer("count_observable", <<obs>>, <<Len(fetch_embeddings(mixture, obs))>>)
    /\ UNCHANGED <<indexed_set, patterns, rule_objects, component_weights, system, error>>

NextAB ==
    \/ \E pname \in DOMAIN Scenarios : InstantiateCopy(pname)
    \/ SetUp
    \/ SystemUpdate
    \/ \E obs \in QueryComponents : CountObservable(obs)

SpecAB == Init /\ [][NextAB]_vars

\* ------------------------------------------------- calls on components
\* the Component objects of the patterns
\* the patterns whose components are compared: the initial mixtures, the
\* sides of the scheduler's rules and the observables
ComparedPatterns ==
    {"initA", "initRing", "initAB", "bindL", "bindR", "unbindL", "unbindR", "foldL", "foldR",
     "convL", "convR", "ambiL", "ambiR", "obsPB", "obsRR", "dimer", "freeAB", "chain2",
     "obsA", "obsB"}

ComponentObjects ==
    UNION {{Comp(p, k) : k \in DOMAIN patterns[p].components} : p \in ComparedPatterns}

Returns(r) == r \in {"true", "false"}

\* c.isomorphic(d)
IsomorphicCall(c, d) ==
    /\ error = "none"
    /\ LET Call(r) ==
             /\ last' = Answer("isomorphic", <<c, d>>,
                               IF Returns(r) THEN <<r = "true">> ELSE << >>)
             /\ error' = IF Returns(r) THEN "none" ELSE r
       IN  Call(isomorphic(c, d))
    /\ UNCHANGED <<indexed_set, patterns, rule_objects, mixture, component_weights, system>>

\* len(list(c.embeddings(d, exact=True)))
ExactEmbeddingsCall(c, d) ==
    /\ error = "none"
    /\ LET Call(y) ==
             /\ last' = Answer("embeddings", <<c, d>>,
                               IF y.err = "none" THEN <<Len(y.maps)>> ELSE << >>)
             /\ error' = y.err
       IN  Call(exact_embeddings(c, d))
    /\ UNCHANGED <<indexed_set, patterns, rule_objects, mixture, component_weights, system>>

NextPattern ==
    \/ \E c, d \in ComponentObjects : IsomorphicCall(c, d)
    \/ \E c, d \in ComponentObjects : ExactEmbeddingsCall(c, d)

SpecPattern == Init /\ [][NextPattern]_vars

\* ------------------------------------------------- calls on the mixture
\* The Mixture and MixtureUpdate methods called directly: instantiate with a
\* number of copies, before or after a System has tracked its components,
\* and apply_update on an update assembled field by field or by one call of
\* a MixtureUpdate method.

\* Mixture.instantiate(pattern, n_copies): every component is handed to
\* _instantiate_component with n_copies, which copies the agents once and
\* builds Component(new_agents, n_copies); Component.__init__ accepts only
\* n_copies = 1
instantiate_n(M, pname, n_copies) ==
    IF patterns[pname].components = << >> THEN Res(M, "none")
    ELSE IF n_copies = 1 THEN Res(instantiate(M, pname), "none")
    ELSE Res([M EXCEPT !.nonce = @ + Len(Head(patterns[pname].components))],
             IF n_copies < 1 THEN "AssertionError" ELSE "NotImplementedError")

\* mixture.instantiate(pattern, n_copies) while the mixture is being filled,
\* or once more on the mixture a System has been built on
InstantiateN(pname, n_copies) ==
    /\ error = "none"
    /\ IF system.constructed THEN last.op = "construct"
                             ELSE last.op \in {"init", "instantiate"}
    /\ Cardinality(mixture.agents) + Len(patterns[pname].agents) <= MaxAgents
    /\ LET Called(r) ==
             /\ mixture' = r.M
             /\ error' = r.err
             /\ last' = [Last("instantiate", pname,
                              IF r.err = "none" THEN "instantiated" ELSE "raise_instantiate",
                              FALSE, FALSE)
                            EXCEPT !.query = <<n_copies>>]
       IN  Called(instantiate_n(mixture, pname, n_copies))
    /\ UNCHANGED <<indexed_set, patterns, rule_objects, component_weights, system>>

\* System(mixture, rules, observables) on the mixture as it is
Track ==
    /\ last.op \in {"init", "instantiate"}
    /\ Construct(<<"bind", "unbind", "conv">>, Observables)

\* the sites of a set of agents
SitesOf(M, agents) ==
    {site \in agents \X SeqRange(LabelOrder) : site[2] \in DOMAIN M.obj[site[1]].sites}

\* one Edge per pair of sites on different agents
EdgesOver(M, agents) ==
    {e \in SitesOf(M, agents) \X SitesOf(M, agents) : e[1][1] < e[2][1]}

\* an Agent object that is not in the mixture, made by instantiate_agent and
\* then detached or given a bond to a site of the mixture
OutsideAgents(M) ==
    {Agent("A", "l" :> Site("u", ls) @@ "r" :> Site("u", EmptyState)) :
        ls \in {EmptyState} \cup {RefTo(<<a, "l">>) : a \in {b \in M.agents : b = Min(M.agents)}}}

WithOutside(M, agent) ==
    [M EXCEPT !.nonce = @ + 1, !.obj = (new_id(M) :> agent) @@ @]

\* the updates assembled field by field: at most one agent to remove, one to
\* add, one edge to remove and one to add, over the agents of the mixture
\* and one agent outside it
Deltas(M, outside) ==
    LET everyone == M.agents \cup {outside}
    IN  [agents_to_add    : {<< >>, <<outside>>},
         agents_to_remove : {<< >>} \cup {<<a>> : a \in everyone},
         edges_to_add     : {{}} \cup {{e} : e \in EdgesOver(M, everyone)},
         edges_to_remove  : {{}} \cup {{e} : e \in EdgesOver(M, M.agents)},
         agents_changed   : {{}}]

\* what a call of apply_update leaves in last: the update, and for
\* ApplyDelta the outside agent as it was before the call
Delivered(op, r, query, update) ==
    [Last(op, "", IF r.err = "none" THEN "applied" ELSE "raise_apply",
          r.err = "none", FALSE)
        EXCEPT !.query = query, !.returned = <<update>>]

\* mixture.apply_update(update) on an update assembled field by field
ApplyDelta ==
    /\ error = "none"
    /\ last.op \in {"instantiate", "construct"}
    /\ \E agent \in OutsideAgents(mixture) :
          LET Call(M, outside) ==
                \E update \in Deltas(M, outside) :
                   \E removals \in Perms(update.edges_to_remove),
                      additions \in Perms(update.edges_to_add) :
                      LET Applied(r) ==
                            /\ mixture' = r.M
                            /\ error' = r.err
                            /\ last' = Delivered("apply_delta", r, <<outside, agent>>, update)
                      IN  Applied(apply_update(M, update, removals, additions))
          IN  Call(WithOutside(mixture, agent), new_id(mixture))
    /\ UNCHANGED <<indexed_set, patterns, rule_objects, component_weights, system>>

\* update = MixtureUpdate(); update.remove_agent(agent);
\* mixture.apply_update(update)
RemoveAgentCall(agent) ==
    /\ error = "none"
    /\ last.op \in {"instantiate", "construct"}
    /\ agent \in mixture.agents
    /\ LET Built(b) ==
             IF b.err # "none"
             THEN /\ error' = b.err
                  /\ mixture' = mixture
                  /\ last' = [Last("remove_agent", "", "raise_build", FALSE, FALSE)
                                 EXCEPT !.query = <<agent>>, !.returned = <<b.U>>]
             ELSE \E removals \in Perms(b.U.edges_to_remove) :
                     LET Applied(r) ==
                           /\ mixture' = r.M
                           /\ error' = r.err
                           /\ last' = Delivered("remove_agent", r, <<agent>>, b.U)
                     IN  Applied(apply_update(mixture, b.U, removals, << >>))
       IN  Built(remove_agent(NoUpdate, mixture, agent))
    /\ UNCHANGED <<indexed_set, patterns, rule_objects, component_weights, system>>

\* update = MixtureUpdate(); update.connect_sites(site1, site2);
\* mixture.apply_update(update)
ConnectSitesCall(site1, site2) ==
    /\ error = "none"
    /\ last.op \in {"instantiate", "construct"}
    /\ site1 \in SitesOf(mixture, mixture.agents)
    /\ site2 \in SitesOf(mixture, mixture.agents)
    /\ LET Built(update) ==
             \E removals \in Perms(update.edges_to_remove),
                additions \in Perms(update.edges_to_add) :
                LET Applied(r) ==
                      /\ mixture' = r.M
                      /\ error' = r.err
                      /\ last' = Delivered("connect_sites", r, <<site1, site2>>, update)
                IN  Applied(apply_update(mixture, update, removals, additions))
       IN  Built(connect_sites(NoUpdate, mixture, site1, site2))
    /\ UNCHANGED <<indexed_set, patterns, rule_objects, component_weights, system>>

NextMixture ==
    \/ \E pname \in InitPatterns, n_copies \in 1 .. MaxN : InstantiateN(pname, n_copies)
    \/ Track
    \/ ApplyDelta
    \/ \E agent \in mixture.agents : RemoveAgentCall(agent)
    \/ \E site1, site2 \in SitesOf(mixture, mixture.agents) : ConnectSitesCall(site1, site2)

SpecMixture == Init /\ [][NextMixture]_vars

\* ------------------------------------------------- rewrites by a rule
\* rule.select(mixture) on each rule of a System, up to the MixtureUpdate
\* that _produce_update returns for the selection drawn.
RewriteRules ==
    <<"bind", "unbind", "conv", "mark", "flip", "keep", "create", "delete", "drop", "wild",
      "rebind">>

\* System(mixture, rules) on the mixture instantiated so far
SetUpRewrite ==
    /\ last.op \in {"init", "instantiate"}
    /\ Construct(RewriteRules, << >>)

\* select draws a selection and hands it to _produce_update; last keeps the
\* selection per slot, the update and new_selection
ProduceUpdate(rname) ==
    /\ error = "none"
    /\ last.op = "construct"
    /\ rname \in SeqRange(system.rules)
    /\ \E sel \in SelectOutcomes(rname, mixture, component_weights[rname]) :
          /\ sel.kind = "update"
          /\ LET Produced(pu) ==
                   /\ mixture' = pu.M
                   /\ error' = pu.err
                   /\ last' = [Last("produce_update", rname,
                                    IF pu.err = "none" THEN "produced" ELSE "raise_select",
                                    FALSE, sel.overlap)
                                  EXCEPT !.query = <<convert_selection_map(rname, sel.selection_map)>>,
                                         !.returned = <<pu.U, pu.new_selection>>]
             IN  Produced(_produce_update(rname, sel.selection_map, mixture))
    /\ UNCHANGED <<indexed_set, patterns, rule_objects, component_weights, system>>

NextRewrite ==
    \/ \E pname \in InitPatterns : Instantiate(pname)
    \/ SetUpRewrite
    \/ \E rname \in RuleNames : ProduceUpdate(rname)

SpecRewrite == Init /\ [][NextRewrite]_vars

\* ------------------------------------------------------------ properties
\* the states a call left by returning normally: no exception ended the run,
\* or the one that did was raised after apply_update had returned
Settled == last.op # "select" /\ (error = "none" \/ last.updated)

TrackedComponents == DOMAIN mixture.match_cache

AllComponents ==
    {Comp(p, k) : p \in PatternNames, k \in 1 .. MaxAgents + 1} \cap
    {c \in [pat : PatternNames, idx : 1 .. MaxAgents + 1] :
        c.idx \in DOMAIN patterns[c.pat].components}

Injective(e) == \A x, y \in DOMAIN e : e[x] = e[y] => x = y

\* site n of host agent a and site t of host agent b point at each other
MutualBond(M, a, n, b, t) ==
    /\ a \in M.agents /\ b \in M.agents
    /\ n \in DOMAIN M.obj[a].sites /\ t \in DOMAIN M.obj[b].sites
    /\ M.obj[a].sites[n].link_state = SiteRef(b, t)
    /\ M.obj[b].sites[t].link_state = SiteRef(a, n)

BondsSymmetric(M) ==
    \A a \in M.agents : \A n \in DOMAIN M.obj[a].sites :
        IsSite(M.obj[a].sites[n].link_state) =>
            MutualBond(M, a, n, M.obj[a].sites[n].link_state.ag,
                       M.obj[a].sites[n].link_state.lab)

Bonded(M, a, b) ==
    \E n \in DOMAIN M.obj[a].sites, t \in DOMAIN M.obj[b].sites : MutualBond(M, a, n, b, t)

RECURSIVE BondClosure(_, _)
BondClosure(M, S) ==
    LET N == S \cup {b \in M.agents : \E a \in S : Bonded(M, a, b)}
    IN  IF N = S THEN S ELSE BondClosure(M, N)

ComponentPartition(M) ==
    /\ \A a \in M.agents :
          /\ a \in DOMAIN M.component_index
          /\ M.component_index[a] \in DOMAIN M.components
          /\ \A k \in DOMAIN M.components : a \in M.components[k] <=> k = M.component_index[a]
    /\ \A k \in DOMAIN M.components : M.components[k] # {} /\ M.components[k] \subseteq M.agents
    /\ \A a, b \in M.agents :
          M.component_index[a] = M.component_index[b] <=> b \in BondClosure(M, {a})

\* the site predicates of a pattern site, read on host site n of e[a]
SiteSatisfied(M, c, e, a, n) ==
    LET p == CompAgent(c, a).sites[n]
    IN  IF n \notin DOMAIN M.obj[e[a]].sites THEN FALSE
        ELSE LET h == M.obj[e[a]].sites[n]
             IN  /\ IsInternalState(p.internal_state) => h.internal_state = p.internal_state
                 /\ CASE p.link_state.kind = "empty" -> h.link_state.kind = "empty"
                      [] p.link_state.kind = "bound" -> IsSite(h.link_state)
                      [] p.link_state.kind = "sitetype" ->
                           /\ IsSite(h.link_state)
                           /\ h.link_state.lab = p.link_state.lab
                           /\ TypeOf(M, h.link_state.ag) = p.link_state.tn
                      [] p.link_state.kind = "site" ->
                           MutualBond(M, e[a], n, e[p.link_state.ag], p.link_state.lab)
                      [] OTHER -> TRUE

\* the independent enumeration: every injective, type-respecting map
BruteForce(M, c) ==
    {e \in [SeqRange(CompAgents(c)) -> M.agents] :
        /\ Injective(e)
        /\ \A a \in DOMAIN e :
              /\ CompAgent(c, a).type = TypeOf(M, e[a])
              /\ \A n \in DOMAIN CompAgent(c, a).sites : SiteSatisfied(M, c, e, a, n)}

\* what either matcher yields for c on the current mixture
MatcherYield(c) ==
    SeqRange(find_embeddings(mixture, c)) \cup SeqRange(embeddings(mixture, c))

\* every pattern bond a.n - a'.t is a host bond e[a].n - e[a'].t
BondsPreserved(M, c, e) ==
    \A a \in DOMAIN e : \A n \in DOMAIN CompAgent(c, a).sites :
        LET ls == CompAgent(c, a).sites[n].link_state
        IN  IsSite(ls) => MutualBond(M, e[a], n, e[ls.ag], ls.lab)

\* C1: after an apply_update that returned normally, the maintained
\* embeddings of every tracked component are, as a set of maps, the ones
\* either matcher enumerates from scratch on the mixture the update left, and
\* the per-component index holds the same maps.
C1_IndexEqualsFromScratch ==
    last.updated =>
        \A c \in TrackedComponents :
            /\ SeqRange(mixture.match_cache[c]) = SeqRange(find_embeddings(mixture, c))
            /\ SeqRange(mixture.match_cache[c]) = SeqRange(embeddings(mixture, c))
            /\ SeqRange(mixture.match_cache[c]) =
                  UNION {SeqRange(fetch_embeddings_in_component(mixture, c, k)) :
                            k \in DOMAIN mixture.components}

C1_Witness ==
    /\ last.updated
    /\ last.rule = "bind"
    /\ Len(mixture.match_cache[Comp("unbindL", 1)]) > 0
    /\ Len(mixture.match_cache[Comp("bindL", 1)]) > 0

\* C2: in every settled state the components partition the agents,
\* component_index names each agent's component, no component is empty, and
\* two agents share a component exactly when a path of bonds joins them.
C2_ComponentsPartitionAgents == Settled => ComponentPartition(mixture)

\* C3: in every settled state every bond is symmetric: a site that has a
\* partner is the partner of that partner, whose agent is in the mixture.
C3_BondsSymmetric == Settled => BondsSymmetric(mixture)

\* C4: for every tracked component, the number of maintained embeddings is
\* the number of injective, type-respecting, bond- and predicate-respecting
\* maps found by brute-force enumeration.
C4_CountEqualsBruteForce ==
    system.constructed /\ Settled =>
        \A c \in TrackedComponents :
            Len(mixture.match_cache[c]) = Cardinality(BruteForce(mixture, c))

\* C5: every map a matcher yields for a pattern component is injective.
C5_MatcherInjective ==
    Settled => \A c \in AllComponents : \A e \in MatcherYield(c) : Injective(e)

\* C6: every map a matcher yields sends each pattern bond to a host bond
\* between the sites of the same labels.
C6_BondsMapToBonds ==
    Settled => \A c \in AllComponents : \A e \in MatcherYield(c) : BondsPreserved(mixture, c, e)

\* the embeddings of c, enumerated from scratch, whose image lies in
\* mixture component k
EmbeddingsInside(c, k) ==
    {e \in SeqRange(find_embeddings(mixture, c)) : Image(e) \subseteq mixture.components[k]}

RulesOfKind(kind) == {r \in SeqRange(system.rules) : rule_objects[r].kind = kind}

\* C7: for a default rule n_embeddings is the product over the left
\* components of the number of current embeddings of each, overlapping
\* images included.
C7_DefaultCountIsProduct ==
    system.constructed /\ Settled =>
        \A r \in RulesOfKind("default") :
            n_embeddings(r, mixture) =
                SeqProd([k \in DOMAIN LeftComponents(r) |->
                            Len(find_embeddings(mixture, LeftComponents(r)[k]))])

\* two free agents: bind counts 4, two of them with both slots on one agent
C7_Witness ==
    /\ system.constructed /\ error = "none"
    /\ "bind" \in SeqRange(system.rules)
    /\ n_embeddings("bind", mixture) = 4
    /\ \E e1 \in SeqRange(fetch_embeddings(mixture, Comp("bindL", 1))),
          e2 \in SeqRange(fetch_embeddings(mixture, Comp("bindL", 2))) :
          Image(e1) = Image(e2)

\* C8: for a unimolecular rule n_embeddings is the sum over the mixture
\* components of the product of the per-left-component embedding counts
\* inside that component.
C8_UnimolecularCount ==
    system.constructed /\ Settled =>
        \A r \in RulesOfKind("uni") :
            n_embeddings(r, mixture) =
                SetSum([k \in DOMAIN mixture.components |->
                           SeqProd([i \in DOMAIN LeftComponents(r) |->
                                       Cardinality(EmbeddingsInside(LeftComponents(r)[i], k))])],
                       DOMAIN mixture.components)

\* C9: for a bimolecular rule n_embeddings is the number of pairs of
\* embeddings of the two left components whose images lie in different
\* mixture components, and for a two-component left pattern the default
\* count is the unimolecular count plus the bimolecular count.
C9_BimolecularCount ==
    system.constructed /\ Settled =>
        \A r \in RulesOfKind("bi") :
            /\ n_embeddings(r, mixture) =
                  Cardinality(
                    {pair \in SeqRange(find_embeddings(mixture, LeftComponents(r)[1]))
                              \X SeqRange(find_embeddings(mixture, LeftComponents(r)[2])) :
                        \A k \in DOMAIN mixture.components :
                            ~(Image(pair[1]) \cup Image(pair[2]) \subseteq mixture.components[k])})
            /\ n_embeddings_default(r, mixture) =
                  n_embeddings_unimolecular(r, mixture) + n_embeddings_bimolecular(r, mixture)

\* a step in which System.apply_rule ran, directly or from System.update
ApplyRuleStep == last'.op \in {"apply_rule", "update"} /\ last'.rule # ""

\* C10: in every step of apply_rule: if select returned an update it is
\* applied, the rule's applied tally grows by one, failed is unchanged and the
\* cached reactivities are invalid; if select returned none only failed grows
\* by one; the step does not fail on the state of the cache.
C10_ApplyRuleTallies ==
    [][ApplyRuleStep =>
          LET r == last'.rule
          IN  /\ last'.kind = "applied" =>
                    /\ system'.tallies[r].applied = system.tallies[r].applied + 1
                    /\ system'.tallies[r].failed = system.tallies[r].failed
                    /\ ~system'.cached
                    /\ error' = "none"
              /\ last'.kind = "null" =>
                    /\ system'.tallies[r].failed = system.tallies[r].failed + 1
                    /\ system'.tallies[r].applied = system.tallies[r].applied
                    /\ error' = "none"
              /\ \A q \in RuleNames \ {r} : system'.tallies[q] = system.tallies[q]
              /\ error' # "KeyError"]_vars

\* a step of System.update() in which a rule was chosen and select ran
UpdateRuleStep == last'.op = "update" /\ last'.rule # ""

\* C11: when the embeddings select drew for different left components have
\* overlapping images, the System.update() step is a null event: the mixture
\* (agents, bonds, internal states, embedding collections) is unchanged, the
\* rule's failed tally grows by one, applied does not, no exception is raised
\* and the clock has been advanced by wait().
C11_OverlapIsNullEvent ==
    [][UpdateRuleStep /\ last'.overlap =>
          /\ last'.kind = "null"
          /\ mixture' = mixture
          /\ system'.tallies[last'.rule].failed = system.tallies[last'.rule].failed + 1
          /\ system'.tallies[last'.rule].applied = system.tallies[last'.rule].applied
          /\ system'.time = system.time + 1
          /\ error' = "none"]_vars

\* an update step just drew overlapping embeddings for bind's two components
C11_Witness ==
    /\ last.op = "update" /\ last.rule = "bind" /\ last.overlap
    /\ last.kind = "null"
    /\ system.tallies["bind"].failed = 1
    /\ system.time = 1

\* C12: when the total reactivity read by System.update() is zero, the step
\* raises no error, leaves time, the mixture and all tallies unchanged and
\* applies no rule.
C12_ZeroReactivityIsNoOp ==
    [][last'.op = "update" /\ system.constructed /\ error = "none" /\ reactivity = 0 =>
          /\ error' = "none"
          /\ system'.time = system.time
          /\ last'.rule = ""
          /\ mixture' = mixture
          /\ system'.tallies = system.tallies]_vars

\* the number of mixture agents of type t
CountOfType(M, t) == Cardinality({a \in M.agents : TypeOf(M, a) = t})

\* what one application of the rule declares for type t: the agents of type t
\* its right side creates minus those its left side removes
RuleDelta(rname, t) ==
    LET creates(i) == Left(rname)[i].type # t /\ Right(rname)[i].type = t
        removes(i) == Left(rname)[i].type = t /\ Right(rname)[i].type # t
    IN  Cardinality({i \in DOMAIN Left(rname) : creates(i)})
        - Cardinality({i \in DOMAIN Left(rname) : removes(i)})

\* C13: over every System.update() step the number of agents of each type
\* changes by the sum over the rules of the growth of the rule's applied
\* tally times what one application of the rule creates minus removes; a null
\* event and a step that chooses no rule change no count.
C13_AgentCountsFollowTallies ==
    [][last'.op = "update" =>
          \A t \in Types :
              CountOfType(mixture', t) - CountOfType(mixture, t) =
                  SetSum([r \in RuleNames |->
                             (system'.tallies[r].applied - system.tallies[r].applied)
                             * RuleDelta(r, t)],
                         RuleNames)]_vars

\* update() has applied conv, which removes an A and creates a B
C13_Witness ==
    /\ last.op = "update" /\ last.rule = "conv" /\ last.kind = "applied"
    /\ system.tallies["conv"].applied = 1
    /\ CountOfType(mixture, "B") >= 1

\* the bonds of the mixture: pairs of sites that point at each other
BondCount(M) ==
    Cardinality({s \in M.agents \X SeqRange(LabelOrder) :
                    /\ s[2] \in DOMAIN M.obj[s[1]].sites
                    /\ IsSite(LinkOf(M, s))
                    /\ MutualBond(M, s[1], s[2], LinkOf(M, s).ag, LinkOf(M, s).lab)}) \div 2

\* the copies the scenario started from, and the applications so far
Copies == Cardinality(mixture.agents) \div 2
Applied(rname) == system.tallies[rname].applied
InScenario(rname) == system.constructed /\ system.rules = <<rname>>

\* C14: from n copies of A(a[1]), B(b[1]) under the single rule
\* A(a[1]), B(b[1]) -> A(a[.]), B(b[.]): every step that selects the rule
\* applies an update that removes exactly one bond; after k applications
\* |A(a[1]), B(b[1])| = n - k and |A(a[.])| = |B(b[.])| = k, so each application
\* moves each by one and the first never increases; the rule has as many
\* embeddings as the observable counts, none after n applications.
C14_UnbindingCountsDown ==
    [][InScenario("unbindAB")' =>
          /\ (_eval_observable("dimer") = Copies - Applied("unbindAB"))'
          /\ (_eval_observable("obsA") = Applied("unbindAB"))'
          /\ (_eval_observable("obsB") = Applied("unbindAB"))'
          /\ (n_embeddings("unbindAB", mixture) = _eval_observable("dimer"))'
          /\ UpdateRuleStep =>
                /\ last'.kind = "applied" /\ error' = "none"
                /\ Applied("unbindAB")' = Applied("unbindAB") + 1
                /\ BondCount(mixture') = BondCount(mixture) - 1]_vars

\* every one of at least two dimers has been unbound
C14_Witness ==
    /\ InScenario("unbindAB") /\ Copies >= 2
    /\ Applied("unbindAB") = Copies
    /\ _eval_observable("dimer") = 0
    /\ n_embeddings("unbindAB", mixture) = 0

\* C15: from n free A(a[.]) and n free B(b[.]) under the single rule
\* A(a[.]), B(b[.]) -> A(a[1]), B(b[1]): n_embeddings is (n - k) * (n - k)
\* after k applications (n * n at first, 0 after n), every step that selects
\* the rule applies an update that adds exactly one bond, and
\* |A(a[1]), B(b[1])| = k, so after n applications it is n and the total
\* reactivity is zero.
C15_BindingCountsUp ==
    [][InScenario("bindAB")' =>
          /\ (n_embeddings("bindAB", mixture) =
                 (Copies - Applied("bindAB")) * (Copies - Applied("bindAB")))'
          /\ (_eval_observable("dimer") = Applied("bindAB"))'
          /\ (Applied("bindAB") = Copies => reactivity = 0)'
          /\ UpdateRuleStep =>
                /\ last'.kind = "applied" /\ error' = "none"
                /\ Applied("bindAB")' = Applied("bindAB") + 1
                /\ BondCount(mixture') = BondCount(mixture) + 1]_vars

\* every one of at least two pairs has been bound
C15_Witness ==
    /\ InScenario("bindAB") /\ Copies >= 2
    /\ Applied("bindAB") = Copies
    /\ _eval_observable("dimer") = Copies
    /\ n_embeddings("bindAB", mixture) = 0

\* the automorphisms of a component: the bijections of its agents onto
\* themselves that keep the type, the sites, every site's internal state,
\* every binding state that is not a bond, and every bond with the labels of
\* its two ends
Automorphisms(c) ==
    LET S == SeqRange(CompAgents(c))
        Ag(a) == CompAgent(c, a)
    IN  {f \in [S -> S] :
           /\ Injective(f)
           /\ \A a \in S :
                 /\ Ag(f[a]).type = Ag(a).type
                 /\ DOMAIN Ag(f[a]).sites = DOMAIN Ag(a).sites
                 /\ \A n \in DOMAIN Ag(a).sites :
                       /\ Ag(f[a]).sites[n].internal_state = Ag(a).sites[n].internal_state
                       /\ Ag(f[a]).sites[n].link_state =
                             IF IsSite(Ag(a).sites[n].link_state)
                             THEN SiteRef(f[Ag(a).sites[n].link_state.ag],
                                          Ag(a).sites[n].link_state.lab)
                             ELSE Ag(a).sites[n].link_state}

SelfQuery(op) == last.op = op /\ last.query[1] = last.query[2]

\* C17: for every component P, P.isomorphic(P) returns true and
\* P.embeddings(P, exact=True) yields as many maps as P has automorphisms.
C17_SelfEmbeddingsAreAutomorphisms ==
    /\ SelfQuery("isomorphic") => last.returned = <<TRUE>>
    /\ SelfQuery("embeddings") =>
          last.returned = <<Cardinality(Automorphisms(last.query[1]))>>

\* C18: a.isomorphic(b) and b.isomorphic(a) both return, and return the same
\* boolean, whatever sites the agents of a and b mention.
C18_IsomorphicSymmetric ==
    last.op = "isomorphic" =>
        /\ last.returned # << >>
        /\ Returns(isomorphic(last.query[2], last.query[1]))
        /\ last.returned = <<isomorphic(last.query[2], last.query[1]) = "true">>

\* the components declared as observables of the system
DeclaredObservables == {Comp(system.observables[i], 1) : i \in DOMAIN system.observables}

\* C16: count_observable(c) for a component c that was not declared returns
\* the embedding count of a declared observable isomorphic to c, and raises
\* when no declared observable is isomorphic to c.
C16_CountByIsomorphicObservable ==
    last.op = "count_observable" /\ last.query[1] \notin DeclaredObservables =>
        IF \E d \in DeclaredObservables : isomorphic(d, last.query[1]) = "true"
        THEN \E d \in DeclaredObservables :
                /\ isomorphic(d, last.query[1]) = "true"
                /\ last.returned = <<Len(fetch_embeddings(mixture, d))>>
        ELSE error # "none" /\ last.returned = << >>

\* C19: rule.select(mixture) leaves the agents, the bonds and the internal
\* states of the mixture as they were.
C19_SelectLeavesMixture ==
    [][last'.op = "select" =>
          /\ mixture'.agents = mixture.agents
          /\ \A a \in mixture.agents : mixture'.obj[a] = mixture.obj[a]]_vars

\* what apply_update owns: the graph, the component partition and the
\* embedding collections
Owned(M) ==
    <<M.agents, [a \in M.agents |-> M.obj[a]], M.agents_by_type, M.components,
      M.component_index, M.match_cache, M.match_cache_by_component>>

\* C20: an apply_update in which a primitive edit is rejected leaves the
\* mixture graph, the component partition and the embedding collections as
\* they were before the call.
C20_ApplyUpdateAtomic ==
    [][last'.kind = "raise_apply" => Owned(mixture') = Owned(mixture)]_vars

\* an update handed to apply_update, read against the mixture before the call
AgentOf(M, l, a) == IF l.query # << >> /\ a = l.query[1] THEN l.query[2] ELSE M.obj[a]

HasBoundSite(agent) ==
    \E n \in DOMAIN agent.sites : IsSite(agent.sites[n].link_state)

AddsBoundAgent(M, l, update) ==
    \E a \in SeqRange(update.agents_to_add) : HasBoundSite(AgentOf(M, l, a))

RemovesAgentLeftBonded(M, l, update) ==
    \E a \in SeqRange(update.agents_to_remove) :
       \E n \in DOMAIN AgentOf(M, l, a).sites :
          LET ls == AgentOf(M, l, a).sites[n].link_state
          IN  IsSite(ls) /\ ~EdgeIn(<< <<a, n>>, <<ls.ag, ls.lab>> >>, update.edges_to_remove)

AddsEdgeOutsideMixture(M, update) ==
    \E e \in update.edges_to_add :
       \E i \in 1 .. 2 :
          e[i][1] \notin (M.agents \ SeqRange(update.agents_to_remove))
                             \cup SeqRange(update.agents_to_add)

SitesBonded(M, l, e) ==
    /\ AgentOf(M, l, e[1][1]).sites[e[1][2]].link_state = RefTo(e[2])
    /\ AgentOf(M, l, e[2][1]).sites[e[2][2]].link_state = RefTo(e[1])

RemovesMissingEdge(M, l, update) ==
    \E e \in update.edges_to_remove : ~SitesBonded(M, l, e)

Rejectable(M, l) ==
    LET Invalid(update) ==
          \/ AddsBoundAgent(M, l, update)
          \/ RemovesAgentLeftBonded(M, l, update)
          \/ AddsEdgeOutsideMixture(M, update)
          \/ RemovesMissingEdge(M, l, update)
    IN  Invalid(l.returned[1])

PatternBonds(pname) ==
    Cardinality({s \in (DOMAIN patterns[pname].agents) \X SeqRange(LabelOrder) :
                    /\ s[2] \in DOMAIN patterns[pname].agents[s[1]].sites
                    /\ IsSite(patterns[pname].agents[s[1]].sites[s[2]].link_state)}) \div 2

\* the agents of component k of M are a copy of the pattern component
CopyOf(M, k, pname, component) ==
    \E f \in [SeqRange(component) -> M.components[k]] :
       /\ \A x, y \in SeqRange(component) : f[x] = f[y] => x = y
       /\ Cardinality(M.components[k]) = Len(component)
       /\ \A x \in SeqRange(component) :
             LET pa == patterns[pname].agents[x]
                 ma == M.obj[f[x]]
             IN  /\ ma.type = pa.type
                 /\ DOMAIN ma.sites = DOMAIN pa.sites
                 /\ \A n \in DOMAIN pa.sites :
                       /\ ma.sites[n].internal_state = pa.sites[n].internal_state
                       /\ ma.sites[n].link_state =
                             IF IsSite(pa.sites[n].link_state)
                             THEN SiteRef(f[pa.sites[n].link_state.ag],
                                          pa.sites[n].link_state.lab)
                             ELSE EmptyState

\* C22: Mixture.instantiate(pattern, n) on a fully specified pattern adds n
\* copies of every component of the pattern: n times its agents, its bonds
\* and its components more than before, each new component a copy of its
\* pattern component, made of agents that were not in the mixture.
C22_InstantiateAddsCopies ==
    [][last'.op = "instantiate" /\ last'.query # << >> =>
          LET n     == last'.query[1]
              pname == last'.rule
              fresh == DOMAIN mixture'.components \ DOMAIN mixture.components
          IN  /\ error' = "none"
              /\ Cardinality(mixture'.agents) =
                    Cardinality(mixture.agents) + n * Len(patterns[pname].agents)
              /\ BondCount(mixture') = BondCount(mixture) + n * PatternBonds(pname)
              /\ Cardinality(fresh) = n * Len(patterns[pname].components)
              /\ \A k \in DOMAIN mixture.components :
                    mixture'.components[k] = mixture.components[k]
              /\ \A k \in fresh : mixture'.components[k] \cap mixture.agents = {}
              /\ \A k, j \in fresh :
                    k # j => mixture'.components[k] \cap mixture'.components[j] = {}
              /\ \A i \in DOMAIN patterns[pname].components :
                    Cardinality({k \in fresh :
                                   CopyOf(mixture', k, pname, patterns[pname].components[i])})
                       = n]_vars

\* the same for a single copy
C22_SingleCopy ==
    [][last'.op = "instantiate" /\ last'.query = <<1>> =>
          LET pname == last'.rule
              fresh == DOMAIN mixture'.components \ DOMAIN mixture.components
          IN  /\ error' = "none"
              /\ Cardinality(mixture'.agents) =
                    Cardinality(mixture.agents) + Len(patterns[pname].agents)
              /\ BondCount(mixture') = BondCount(mixture) + PatternBonds(pname)
              /\ \A i \in DOMAIN patterns[pname].components :
                    Cardinality({k \in fresh :
                                   CopyOf(mixture', k, pname, patterns[pname].components[i])})
                       = 1]_vars

\* C23: after Mixture.instantiate on a mixture whose components have been
\* tracked, the embedding collection of every tracked component, and its
\* view per component of the mixture, hold the maps a from-scratch
\* enumeration finds on the mixture.
C23_InstantiateRefreshesIndex ==
    last.op = "instantiate" /\ last.kind = "instantiated" /\ system.constructed =>
        \A c \in TrackedComponents :
            /\ SeqRange(mixture.match_cache[c]) = SeqRange(find_embeddings(mixture, c))
            /\ SeqRange(mixture.match_cache[c]) =
                  UNION {SeqRange(fetch_embeddings_in_component(mixture, c, k)) :
                            k \in DOMAIN mixture.components}

\* drawing component k for the rule leaves select nothing to pick: some left
\* component has no embedding in k, or (bimolecular) no embedding of the
\* second left component lies outside k
VacuousIn(rname, M, k) ==
    IF rule_objects[rname].kind = "uni"
    THEN \E i \in DOMAIN LeftComponents(rname) :
            fetch_embeddings_in_component(M, LeftComponents(rname)[i], k) = << >>
    ELSE \/ fetch_embeddings_in_component(M, LeftComponents(rname)[1], k) = << >>
         \/ RejectionValid(fetch_embeddings(M, LeftComponents(rname)[2]),
                           fetch_embeddings_in_component(M, LeftComponents(rname)[2], k)) = {}

\* the cached weights can only lead select to a vacuous choice: every
\* component they give a positive weight is vacuous, or none has one
VacuousChoice(rname, M, weights) ==
    /\ DOMAIN weights # {}
    /\ \A k \in DOMAIN weights : weights[k] > 0 => VacuousIn(rname, M, k)

\* C24: System.apply_rule on a unimolecular or bimolecular rule whose cached
\* component weights can only lead to a vacuous choice ends as a null event:
\* nothing is raised and the rule's failed tally goes up by one.
C24_VacuousChoiceIsNullEvent ==
    [][/\ last'.op = "apply_rule"
       /\ rule_objects[last'.rule].kind \in {"uni", "bi"}
       /\ VacuousChoice(last'.rule, mixture, component_weights[last'.rule])
       => /\ last'.kind = "null"
          /\ error' = "none"
          /\ system'.tallies[last'.rule].failed = system.tallies[last'.rule].failed + 1]_vars

\* the sites of M whose partner is a site of the agent
PartnersOf(M, agent) ==
    {site \in SitesOf(M, M.agents \ {agent}) :
        IsSite(LinkOf(M, site)) /\ LinkOf(M, site).ag = agent}

\* C26: an update built by remove_agent(a), for an agent of the mixture with
\* any number of bound sites, applies without error, after which a is not in
\* the mixture and every site that was bonded to a is empty.
C26_RemoveAgentTakesItsBonds ==
    [][last'.op = "remove_agent" =>
          /\ error' = "none"
          /\ last'.query[1] \notin mixture'.agents
          /\ \A site \in PartnersOf(mixture, last'.query[1]) :
                LinkOf(mixture', site) = EmptyState]_vars

\* the same for an agent without bonds
C26_RemoveFreeAgent ==
    [][last'.op = "remove_agent" /\ PartnersOf(mixture, last'.query[1]) = {}
          /\ AllUnbound(mixture, last'.query[1]) =>
          error' = "none" /\ last'.query[1] \notin mixture'.agents]_vars

\* the bonds a site has before the call, as edges
BondsAt(M, site) ==
    IF IsSite(LinkOf(M, site))
    THEN {<<site, <<LinkOf(M, site).ag, LinkOf(M, site).lab>> >>} ELSE {}

SameEdges(edges, others) ==
    /\ \A e \in edges : EdgeIn(e, others)
    /\ \A e \in others : EdgeIn(e, edges)

\* C27: connect_sites(s1, s2) on two sites of the mixture schedules nothing
\* when s1 and s2 are bonded to each other; otherwise it schedules the
\* removal of every bond s1 or s2 has and the addition of the edge (s1, s2),
\* and nothing else. Once the update is applied s1 and s2 are partners and
\* their former partners are empty.
C27_ConnectSitesRebinds ==
    [][last'.op = "connect_sites" =>
          LET site1   == last'.query[1]
              site2   == last'.query[2]
              update  == last'.returned[1]
              bonded  == LinkOf(mixture, site1) = RefTo(site2)
                         /\ LinkOf(mixture, site2) = RefTo(site1)
              former  == {e[2] : e \in BondsAt(mixture, site1) \cup BondsAt(mixture, site2)}
                         \ {site1, site2}
          IN  /\ update.agents_to_add = << >>
              /\ update.agents_to_remove = << >>
              /\ IF bonded
                 THEN update.edges_to_remove = {} /\ update.edges_to_add = {}
                 ELSE /\ SameEdges(update.edges_to_remove,
                                   BondsAt(mixture, site1) \cup BondsAt(mixture, site2))
                      /\ SameEdges(update.edges_to_add, {<<site1, site2>>})
                      /\ Cardinality(update.edges_to_add) = 1
              /\ error' = "none"
              /\ LinkOf(mixture', site1) = RefTo(site2)
              /\ LinkOf(mixture', site2) = RefTo(site1)
              /\ \A site \in former : LinkOf(mixture', site) = EmptyState]_vars

C27_Witness ==
    /\ last.op = "connect_sites"
    /\ error = "none"
    /\ Cardinality(last.returned[1].edges_to_remove) = 2
    /\ LinkOf(mixture, last.query[1]) = RefTo(last.query[2])
    /\ last.query[1][1] # last.query[2][1]

\* the slots of a rule by what the two sides hold
Slots(rname)        == DOMAIN Left(rname)
CreatedSlots(rname) == {i \in Slots(rname) : Left(rname)[i] = NoAgent /\ Right(rname)[i] # NoAgent}
RemovedSlots(rname) == {i \in Slots(rname) : Left(rname)[i] # NoAgent /\ Right(rname)[i] = NoAgent}
SwappedSlots(rname) ==
    {i \in Slots(rname) : /\ Left(rname)[i] # NoAgent /\ Right(rname)[i] # NoAgent
                          /\ Left(rname)[i].type # Right(rname)[i].type}
KeptSlots(rname) ==
    {i \in Slots(rname) : /\ Left(rname)[i] # NoAgent /\ Right(rname)[i] # NoAgent
                          /\ Left(rname)[i].type = Right(rname)[i].type}

\* the right sites of a rule, as <<slot, label>>
RightSites(rname) ==
    {s \in Slots(rname) \X SeqRange(LabelOrder) :
        Right(rname)[s[1]] # NoAgent /\ s[2] \in DOMAIN Right(rname)[s[1]].sites}

\* a right site whose partner is a predicate a rewrite cannot realise
IllegalRight(rname) ==
    \E s \in RightSites(rname) :
        Right(rname)[s[1]].sites[s[2]].link_state.kind \notin {"site", "empty", "undet"}

\* C28: for a rule whose slots all hold agents of one type on both sides,
\* producing the update sets the host's site to every concrete internal
\* state of the right pattern, and the host is in agents_changed exactly when
\* one of those states differs from the left pattern's state for the site;
\* a site the left pattern does not mention has no left state to agree with.
C28_StatesSetAndChangeRegistered ==
    [][/\ last'.op = "produce_update"
       /\ KeptSlots(last'.rule) = Slots(last'.rule)
       /\ ~IllegalRight(last'.rule)
       => LET rname  == last'.rule
              host   == last'.query[1]
              update == last'.returned[1]
              Stated(i) == {n \in DOMAIN Right(rname)[i].sites :
                               IsInternalState(Right(rname)[i].sites[n].internal_state)}
              Differs(i, n) ==
                  \/ n \notin DOMAIN Left(rname)[i].sites
                  \/ Right(rname)[i].sites[n].internal_state
                        # Left(rname)[i].sites[n].internal_state
          IN  /\ error' = "none"
              /\ \A i \in Slots(rname) :
                    /\ \A n \in Stated(i) :
                          mixture'.obj[host[i]].sites[n].internal_state
                             = Right(rname)[i].sites[n].internal_state
                    /\ host[i] \in update.agents_changed
                          <=> \E n \in Stated(i) : Differs(i, n)]_vars

\* the same for the rules whose right sites are all sites of the left agent
C28_MentionedSites ==
    [][/\ last'.op = "produce_update"
       /\ KeptSlots(last'.rule) = Slots(last'.rule)
       /\ ~IllegalRight(last'.rule)
       /\ \A i \in Slots(last'.rule) :
             DOMAIN Right(last'.rule)[i].sites \subseteq DOMAIN Left(last'.rule)[i].sites
       => LET rname  == last'.rule
              host   == last'.query[1]
              update == last'.returned[1]
              Stated(i) == {n \in DOMAIN Right(rname)[i].sites :
                               IsInternalState(Right(rname)[i].sites[n].internal_state)}
          IN  /\ error' = "none"
              /\ \A i \in Slots(rname) :
                    /\ \A n \in Stated(i) :
                          mixture'.obj[host[i]].sites[n].internal_state
                             = Right(rname)[i].sites[n].internal_state
                    /\ host[i] \in update.agents_changed
                          <=> \E n \in Stated(i) :
                                 Right(rname)[i].sites[n].internal_state
                                    # Left(rname)[i].sites[n].internal_state]_vars

\* the host site a right site stands for once the agents have been managed
HostSite(new_selection, s) == <<new_selection[s[1]], s[2]>>

\* C29: a rule with a wildcard, bound or site-type partner on a right site
\* is rejected with an error.  Otherwise the update that is produced holds,
\* for the right sites with a concrete bond, the edits of connect_sites
\* between the host site and the partner's host site found through
\* new_selection; for the right sites with an empty partner, the edits of
\* disconnect_site on the host site; and no edge edit for the others.
C29_EdgeEditsFollowRightSites ==
    [][last'.op = "produce_update" =>
          LET rname   == last'.rule
              update  == last'.returned[1]
              new_sel == last'.returned[2]
              M       == mixture'
              Partner(s) ==
                  LET ls == Right(rname)[s[1]].sites[s[2]].link_state
                  IN  <<new_sel[ls.ag], ls.lab>>
              Joined == {s \in RightSites(rname) :
                            IsSite(Right(rname)[s[1]].sites[s[2]].link_state)}
              Freed  == {s \in RightSites(rname) :
                            Right(rname)[s[1]].sites[s[2]].link_state = EmptyState}
              Already(s) == LinkOf(M, HostSite(new_sel, s)) = RefTo(Partner(s))
          IN  IF IllegalRight(rname) THEN error' # "none"
              ELSE error' = "none" =>
                     /\ SameEdges(update.edges_to_add,
                                  {<<HostSite(new_sel, s), Partner(s)>> :
                                      s \in {t \in Joined : ~Already(t)}})
                     /\ SameEdges(update.edges_to_remove,
                                  UNION {BondsAt(M, HostSite(new_sel, s)) :
                                            s \in Freed \cup {t \in Joined : ~Already(t)}})]_vars

C29_Witness ==
    /\ last.op = "produce_update"
    /\ last.rule = "rebind"
    /\ error = "none"
    /\ Cardinality(last.returned[1].edges_to_add) = 1
    /\ last.returned[1].edges_to_remove # {}

\* C30: producing the update of a rule that can be rewritten schedules one
\* new detached agent of the right type for every slot that is empty on the
\* left or changes type, recorded in new_selection; schedules the removal of
\* the selected host for every slot that is empty on the right or changes
\* type; and schedules neither for the slots that keep their type.
C30_AgentEditsFollowSlots ==
    [][/\ last'.op = "produce_update"
       /\ ~IllegalRight(last'.rule)
       /\ \A i \in KeptSlots(last'.rule) :
             DOMAIN Right(last'.rule)[i].sites \subseteq DOMAIN Left(last'.rule)[i].sites
       => LET rname   == last'.rule
              host    == last'.query[1]
              update  == last'.returned[1]
              new_sel == last'.returned[2]
              made    == CreatedSlots(rname) \cup SwappedSlots(rname)
              gone    == RemovedSlots(rname) \cup SwappedSlots(rname)
          IN  /\ error' = "none"
              /\ Len(update.agents_to_add) = Cardinality(made)
              /\ Len(update.agents_to_remove) = Cardinality(gone)
              /\ \A i \in made :
                    /\ new_sel[i] \in SeqRange(update.agents_to_add)
                    /\ new_sel[i] \notin mixture.agents
                    /\ mixture'.obj[new_sel[i]].type = Right(rname)[i].type
                    /\ AllUnbound(mixture', new_sel[i])
              /\ \A i, j \in made : i # j => new_sel[i] # new_sel[j]
              /\ \A i \in gone : host[i] \in SeqRange(update.agents_to_remove)
              /\ \A i \in KeptSlots(rname) :
                    /\ new_sel[i] = host[i]
                    /\ host[i] \notin SeqRange(update.agents_to_remove)]_vars

\* ---------------------------------------------------------------- edge.py
\* the Cantor pairing function
cantor(x, y) == ((x + y) * (x + y + 1)) \div 2 + y

\* the bitwise exclusive or of two naturals
RECURSIVE Xor(_, _)
Xor(x, y) ==
    IF x = 0 THEN y
    ELSE IF y = 0 THEN x
    ELSE 2 * Xor(x \div 2, y \div 2) + ((x + y) % 2)

\* Counted.__hash__: the id drawn from the shared counter; an agent and each
\* of its sites are separate objects, so they hold different ids
AgentId(agent) == agent * (Len(LabelOrder) + 1)
SiteId(site) ==
    AgentId(site[1]) + (CHOOSE i \in DOMAIN LabelOrder : LabelOrder[i] = site[2])

\* Edge.__eq__ and Edge.__hash__, sites compared through Counted.__eq__
Edge__eq__(e, other) ==
    \/ SiteId(e[1]) = SiteId(other[1]) /\ SiteId(e[2]) = SiteId(other[2])
    \/ SiteId(e[1]) = SiteId(other[2]) /\ SiteId(e[2]) = SiteId(other[1])

Edge__hash__(e) ==
    Xor(cantor(SiteId(e[1]), AgentId(e[1][1])), cantor(SiteId(e[2]), AgentId(e[2][1])))

\* C31: an edge and the same edge with its sites swapped are equal and hash
\* equally, so in the update a rule produces, where every bond of the right
\* side is scheduled once from each of its two sites and every bond to break
\* once from each of its two sites, no bond is held twice in edges_to_add or
\* in edges_to_remove: the rules that make or break one bond hold exactly
\* one edge.
C31_EdgesAreUnordered ==
    [][last'.op = "produce_update" /\ error' = "none" =>
          LET update == last'.returned[1]
              Single(edges) == \A e1, e2 \in edges : Edge__eq__(e1, e2) => e1 = e2
              Unordered(edges) ==
                  \A e \in edges : /\ Edge__eq__(e, <<e[2], e[1]>>)
                                   /\ Edge__hash__(e) = Edge__hash__(<<e[2], e[1]>>)
          IN  /\ Single(update.edges_to_add)
              /\ Single(update.edges_to_remove)
              /\ Unordered(update.edges_to_add \cup update.edges_to_remove)
              /\ last'.rule \in {"bind", "rebind"} => Cardinality(update.edges_to_add) = 1
              /\ last'.rule \in {"unbind", "rebind"} =>
                     Cardinality(update.edges_to_remove) = 1]_vars

C31_Witness ==
    /\ last.op = "produce_update"
    /\ last.rule = "rebind"
    /\ error = "none"
    /\ Cardinality(last.returned[1].edges_to_add) = 1
    /\ Cardinality(last.returned[1].edges_to_remove) = 1

\* ------------------------------------------------- matching one agent
\* A pattern agent with one site, drawn at construction, is matched against
\* the agents of a mixture by both matchers: Agent.embeds_in of pattern.py
\* and the search of Mixture.find_embeddings from one root.  "probe" is the
\* agent A(site); "probeU" is the same agent mentioning one more site, with
\* undetermined state and undetermined partner.
ProbeLabels   == {"a", "l", "r"}
ProbeStates   == {UndeterminedInternal, WildCardInternal, "u", "p"}
ProbePartners ==
    {EmptyState, UndeterminedState, WildCardPredicate, BoundPredicate}
    \cup {SiteTypePredicate(site_name, agent_name) :
              site_name \in {"l", "r"}, agent_name \in {"A", "B"}}
ProbeNames    == {"probe", "probeU"}
HostPatterns  == {"initA", "initAB", "initRing", "dimer"}

ProbeAgent(label, state, partner) == Agent("A", label :> Site(state, partner))

InitSite ==
    /\ \E label \in ProbeLabels, state \in ProbeStates, partner \in ProbePartners,
          extra \in ProbeLabels :
          /\ extra # label
          /\ patterns =
                 [p \in PatternNames |->
                     [agents |-> PatternTable[p], components |-> PatternComponents(p)]]
                 @@ ("probe" :>
                        [agents |-> <<ProbeAgent(label, state, partner)>>,
                         components |-> << <<1>> >>])
                 @@ ("probeU" :>
                        [agents |-> <<Agent("A", label :> Site(state, partner)
                                          @@ extra :> Site(UndeterminedInternal,
                                                           UndeterminedState))>>,
                         components |-> << <<1>> >>])
    /\ rule_objects = RuleTable
    /\ mixture = EmptyMixture
    /\ component_weights = [r \in RuleNames |-> << >>]
    /\ system = [constructed |-> FALSE, rules |-> << >>,
                 tallies |-> [r \in RuleNames |-> [applied |-> 0, failed |-> 0]],
                 cached |-> FALSE, rule_reactivities |-> << >>, time |-> 0,
                 observables |-> << >>]
    /\ error = "none"
    /\ last = Last("init", "", "", FALSE, FALSE)
    /\ indexed_set = IndexedSet__init__(<< >>)

\* what one root of find_embeddings comes to: the map is kept, the root is
\* dropped, or b.sites[site_name] raises
FindRoot(M, c, b) ==
    LET Outcome1(r) == IF r.raised THEN "KeyError" ELSE IF r.failed THEN "false" ELSE "true"
    IN  Outcome1(FeRoot(M, c, b))

\* a.embeds_in(b) for the agent a of a probe and an agent b of the mixture
EmbedsInCall(pname, b) ==
    /\ last' = Answer("embeds_in", <<pname, b>>,
                      <<AgentEmbedsIn(mixture, Comp(pname, 1), 1, b)>>)
    /\ UNCHANGED <<indexed_set, patterns, rule_objects, mixture, component_weights, system, error>>

\* the search of find_embeddings for the probe from the root b
FindRootCall(pname, b) ==
    /\ last' = Answer("find_embeddings", <<pname, b>>, <<FindRoot(mixture, Comp(pname, 1), b)>>)
    /\ UNCHANGED <<indexed_set, patterns, rule_objects, mixture, component_weights, system, error>>

NextSite ==
    \/ \E pname \in HostPatterns : Instantiate(pname)
    \/ \E pname \in ProbeNames, b \in mixture.agents : EmbedsInCall(pname, b)
    \/ \E pname \in ProbeNames, b \in mixture.agents : FindRootCall(pname, b)

SpecSite == InitSite /\ [][NextSite]_vars

\* the site of the probe and what the claim lets it match
ProbeSite == patterns["probe"].agents[1].sites[CHOOSE n \in ProbeLabels :
                                                  n \in DOMAIN patterns["probe"].agents[1].sites]
ProbeLabel == CHOOSE n \in ProbeLabels : n \in DOMAIN patterns["probe"].agents[1].sites

SiteMatches(M, p, c) ==
    /\ p.internal_state \in {"u", "p"} => p.internal_state = c.internal_state
    /\ p.link_state = EmptyState => c.link_state = EmptyState
    /\ p.link_state = BoundPredicate => IsSite(c.link_state)
    /\ p.link_state.kind = "sitetype" =>
           /\ IsSite(c.link_state)
           /\ c.link_state.lab = p.link_state.lab
           /\ TypeOf(M, c.link_state.ag) = p.link_state.tn

\* C32: a pattern site matches a host site of the same label, on an agent of
\* the pattern agent's type, exactly when its concrete state is the host's
\* state, its empty partner meets an empty host site, its bound partner a
\* bound host site, and its site-type partner a host site bound to a site of
\* that label on an agent of that type; wildcards and undetermined parts
\* constrain nothing.  Both matchers answer so.
C32_SiteMatchesExactlyWhen ==
    [][/\ last'.op \in {"embeds_in", "find_embeddings"}
       /\ last'.query[1] = "probe"
       /\ TypeOf(mixture, last'.query[2]) = "A"
       /\ ProbeLabel \in DOMAIN mixture.obj[last'.query[2]].sites
       => last'.returned[1] =
              IF SiteMatches(mixture, ProbeSite, mixture.obj[last'.query[2]].sites[ProbeLabel])
              THEN "true" ELSE "false"]_vars

\* the same for Site.embeds_in of pattern.py alone
C32_EmbedsInMatchesExactlyWhen ==
    [][/\ last'.op = "embeds_in"
       /\ last'.query[1] = "probe"
       /\ TypeOf(mixture, last'.query[2]) = "A"
       /\ ProbeLabel \in DOMAIN mixture.obj[last'.query[2]].sites
       => last'.returned[1] =
              IF SiteMatches(mixture, ProbeSite, mixture.obj[last'.query[2]].sites[ProbeLabel])
              THEN "true" ELSE "false"]_vars

\* C33: the pattern agent that mentions one more site, with undetermined
\* state and partner, is matched to a host agent exactly when the agent
\* without that site is, whether or not the host has the site, and the match
\* returns an answer.
C33_UndeterminedSiteIsNoConstraint ==
    [][/\ last'.op \in {"embeds_in", "find_embeddings"}
       /\ last'.query[1] = "probeU"
       => LET b       == last'.query[2]
              without == IF last'.op = "embeds_in"
                         THEN AgentEmbedsIn(mixture, Comp("probe", 1), 1, b)
                         ELSE FindRoot(mixture, Comp("probe", 1), b)
          IN  /\ last'.returned[1] \in {"true", "false"}
              /\ without \in {"true", "false"} => last'.returned[1] = without]_vars

\* the same on the host agents that have the site
C33_UndeterminedSiteOnHostsWithIt ==
    [][/\ last'.op \in {"embeds_in", "find_embeddings"}
       /\ last'.query[1] = "probeU"
       /\ DOMAIN patterns["probeU"].agents[1].sites
              \subseteq DOMAIN mixture.obj[last'.query[2]].sites
       => LET b       == last'.query[2]
              without == IF last'.op = "embeds_in"
                         THEN AgentEmbedsIn(mixture, Comp("probe", 1), 1, b)
                         ELSE FindRoot(mixture, Comp("probe", 1), b)
          IN  last'.returned[1] = without /\ without \in {"true", "false"}]_vars

\* the mixture component objects that hold an agent of the set
ComponentsOf(M, agents) == {M.component_index[a] : a \in agents}

\* the updates of a bimolecular select: e1 is the part of the selection on
\* the first left component, e2 the part on the second
BimolecularPair(rname, M, sel) ==
    LET e1 == Restrict(sel.selection_map, SeqRange(CompAgents(LeftComponents(rname)[1])))
        e2 == Restrict(sel.selection_map, SeqRange(CompAgents(LeftComponents(rname)[2])))
    IN  /\ Image(e1) \cap Image(e2) = {}
        /\ Cardinality(ComponentsOf(M, Image(e1))) = 1
        /\ ComponentsOf(M, Image(e1)) \cap ComponentsOf(M, Image(e2)) = {}
        /\ \E selected \in DOMAIN M.components :
              /\ e1 \in SeqRange(fetch_embeddings_in_component(
                                     M, LeftComponents(rname)[1], selected))
              /\ e2 \notin SeqRange(fetch_embeddings_in_component(
                                        M, LeftComponents(rname)[2], selected))
              /\ e2 \in SeqRange(fetch_embeddings(M, LeftComponents(rname)[2]))

MaxIterable == 2
Iterables   == UNION {[1 .. n -> Items] : n \in 0 .. MaxIterable}

InitIndexed ==
    /\ patterns = [p \in PatternNames |->
                      [agents |-> PatternTable[p], components |-> PatternComponents(p)]]
    /\ rule_objects = RuleTable
    /\ mixture = EmptyMixture
    /\ component_weights = [r \in RuleNames |-> << >>]
    /\ system = [constructed |-> FALSE, rules |-> << >>,
                 tallies |-> [r \in RuleNames |-> [applied |-> 0, failed |-> 0]],
                 cached |-> FALSE, rule_reactivities |-> << >>, time |-> 0,
                 observables |-> << >>]
    /\ error = "none"
    /\ \E iterable \in Iterables :
          /\ indexed_set = IndexedSet__init__(iterable)
          /\ last = Answer("init", <<iterable>>, << >>)

IndexedCall(op, query, r, answer) ==
    /\ indexed_set' = r.S
    /\ error' = r.err
    /\ last' = Answer(op, query, answer)
    /\ UNCHANGED <<patterns, rule_objects, mixture, component_weights, system>>

AddItem(item) ==
    /\ error = "none"
    /\ IndexedCall("add", <<item>>, IndexedSet_add(indexed_set, item), << >>)

RemoveItem(item) ==
    /\ error = "none"
    /\ IndexedCall("remove", <<item>>, IndexedSet_remove(indexed_set, item), << >>)

CreateIndex(name) ==
    /\ error = "none"
    /\ IndexedCall("create_index", <<name>>, create_index(indexed_set, name), << >>)

Lookup(name, value) ==
    /\ error = "none"
    /\ name \in SeqRange(indexed_set.properties)
    /\ LET Looked(r) == IndexedCall("lookup", <<name, value>>, r, r.answer)
       IN  Looked(lookup(indexed_set, name, value))

GetItem(i) ==
    /\ error = "none"
    /\ LET Got(r) == IndexedCall("getitem", <<i>>, [S |-> indexed_set, err |-> r.err], r.answer)
       IN  Got(IndexedSet__getitem__(indexed_set, i))

NextIndexed ==
    \/ \E item \in Items : AddItem(item)
    \/ \E item \in Items : RemoveItem(item)
    \/ \E name \in DOMAIN IndexTable : CreateIndex(name)
    \/ \E name \in DOMAIN IndexTable, value \in 0 .. MaxItem : Lookup(name, value)
    \/ \E i \in 0 .. MaxItem : GetItem(i)

SpecIndexed == InitIndexed /\ [][NextIndexed]_vars

\* the position vector and the position map are inverse to each other over
\* the members
PositionsInverse(S) ==
    /\ DOMAIN S._item_to_pos = S.members
    /\ Len(S._item_list) = Cardinality(S.members)
    /\ \A x \in S.members :
          /\ S._item_to_pos[x] + 1 \in DOMAIN S._item_list
          /\ S._item_list[S._item_to_pos[x] + 1] = x
    /\ \A i \in DOMAIN S._item_list :
          /\ S._item_list[i] \in S.members
          /\ S._item_to_pos[S._item_list[i]] = i - 1

\* C35: once an IndexedSet is constructed, and after every add and remove
\* that returned, _item_list and _item_to_pos are inverse to each other and
\* hold exactly the members.
C35_PositionsAreInverse ==
    error = "none" => PositionsInverse(indexed_set)

\* the same when the iterable of the construction had no repeated item: add
\* and remove change the length of _item_list and the number of members
\* alike, so these are the sets whose list is as long as their members are many
C35_PositionsAreInverseWithoutRepeats ==
    /\ error = "none"
    /\ Len(indexed_set._item_list) = Cardinality(indexed_set.members)
    => PositionsInverse(indexed_set)

\* the members a property gives the value
MembersWith(S, name, value) ==
    {x \in S.members : value \in SeqRange(PropertyCall(name, x))}

\* C36: after every create_index, add, remove and lookup that returned, the
\* bucket of every registered property for every value holds exactly the
\* members to which the property gives that value, no bucket of a unique
\* property holds two members, and a lookup that has just returned answered
\* that bucket, or its one member for a unique property.
C36_LookupIsExact ==
    error = "none" =>
        LET S == indexed_set
        IN  /\ \A name \in SeqRange(S.properties), value \in 0 .. MaxItem + 1 :
                  /\ Bucket(S, name, value).members = MembersWith(S, name, value)
                  /\ IndexTable[name].is_unique =>
                         Cardinality(Bucket(S, name, value).members) <= 1
            /\ last.op = "lookup" =>
                  IF IndexTable[last.query[1]].is_unique
                  THEN MembersWith(S, last.query[1], last.query[2]) = {last.returned[1]}
                  ELSE last.returned[1] = MembersWith(S, last.query[1], last.query[2])

C36_Witness ==
    /\ error = "none"
    /\ last.op = "lookup"
    /\ last.query[1] = "near"
    /\ Cardinality(last.returned[1]) = 2
    /\ Len(indexed_set.properties) = 3
    /\ indexed_set._item_list # Ascending(indexed_set.members)

NoRepeats(seq) == \A i, j \in DOMAIN seq : seq[i] = seq[j] => i = j

\* C37: once System has tracked the left components of its rules and its
\* observables, a component tracked more than once included, the embeddings
\* of every tracked component and its embeddings in every mixture component
\* hold no embedding twice, and the embeddings filed under a mixture
\* component are as many as those of the whole list that lie in it.
C37_TrackingIsIdempotent ==
    [][last'.op = "construct" =>
          LET M == mixture'
          IN  /\ \A c \in DOMAIN M.match_cache : NoRepeats(M.match_cache[c])
              /\ \A k \in DOMAIN M.match_cache_by_component :
                    /\ NoRepeats(M.match_cache_by_component[k])
                    /\ Len(M.match_cache_by_component[k])
                           = Len(SelectIn(M, k[2], fetch_embeddings(M, k[2]), k[1]))]_vars

\* the same for a system whose rules share no left component
C37_TrackingOnceIsExact ==
    [][last'.op = "construct" /\ NoRepeats(RuleComponents(system'.rules)
                                          \o ObservableComponents(system'.observables)) =>
          LET M == mixture'
          IN  /\ \A c \in DOMAIN M.match_cache : NoRepeats(M.match_cache[c])
              /\ \A k \in DOMAIN M.match_cache_by_component :
                    /\ NoRepeats(M.match_cache_by_component[k])
                    /\ Len(M.match_cache_by_component[k])
                           = Len(SelectIn(M, k[2], fetch_embeddings(M, k[2]), k[1]))]_vars

\* the mixture components under which the embedding e of c is filed
FiledUnder(M, c, e) ==
    {k[1] : k \in {key \in DOMAIN M.match_cache_by_component :
                       key[2] = c /\ e \in SeqRange(M.match_cache_by_component[key])}}

Filing(M) ==
    /\ \A c \in DOMAIN M.match_cache :
          /\ \A e \in SeqRange(M.match_cache[c]) :
                /\ Cardinality(FiledUnder(M, c, e)) = 1
                /\ \A k \in FiledUnder(M, c, e) :
                      k \in DOMAIN M.components /\ Image(e) \subseteq M.components[k]
          /\ LET keys == {key \in DOMAIN M.match_cache_by_component : key[2] = c}
             IN  SetSum([key \in keys |-> Len(M.match_cache_by_component[key])], keys)
                     = Len(M.match_cache[c])
    /\ \A key \in DOMAIN M.match_cache_by_component :
          M.match_cache_by_component[key] # << >> => key[1] \in DOMAIN M.components

\* C38: in every settled state, every maintained embedding of every tracked
\* component is filed under exactly one mixture component, which holds every
\* agent of its image; the embeddings filed per component add up to the
\* maintained ones; and nothing is filed under a component that is no longer
\* in the mixture.
C38_EmbeddingsFiledByComponent == Settled => Filing(mixture)

\* the same after an update that returned
C38_FiledAfterUpdate == last.updated => Filing(mixture)

\* the same for a system whose rules and observables share no component
C38_FiledWhenTrackedOnce ==
    /\ Settled
    /\ NoRepeats(RuleComponents(system.rules) \o ObservableComponents(system.observables))
    => Filing(mixture)

\* ------------------------------------------------- replacing the mixture
\* A System is built on a mixture, its reactivity is read, it is updated, and
\* its mixture is replaced through set_mixture or update_via_kasim by a new
\* Mixture instantiated from one of the initial patterns.
CachedRules == <<"bind", "unbind", "conv">>

\* system.reactivity: the first read fills the cached_property
Reactivity ==
    /\ error = "none"
    /\ system.constructed
    /\ system' = Cached
    /\ component_weights' = ReactivityWeights
    /\ last' = Answer("reactivity", << >>, <<reactivity>>)
    /\ UNCHANGED <<indexed_set, patterns, rule_objects, mixture, error>>

\* system.set_mixture(mixture): the components of the rules and observables
\* are tracked on the new mixture; no other field of the System is touched
SetMixture(pname) ==
    /\ error = "none"
    /\ system.constructed
    /\ mixture' = set_mixture(instantiate(EmptyMixture, pname), system.rules,
                              system.observables)
    /\ last' = Last("set_mixture", pname, "", FALSE, FALSE)
    /\ UNCHANGED <<indexed_set, patterns, rule_objects, component_weights, system, error>>

\* system.update_via_kasim(time): set_mixture on the mixture read back from
\* the snapshot, then time += time
UpdateViaKasim(pname) ==
    /\ error = "none"
    /\ system.constructed
    /\ system.time < MaxTally
    /\ mixture' = set_mixture(instantiate(EmptyMixture, pname), system.rules,
                              system.observables)
    /\ system' = [system EXCEPT !.time = @ + 1]
    /\ last' = Last("update_via_kasim", pname, "", FALSE, FALSE)
    /\ UNCHANGED <<indexed_set, patterns, rule_objects, component_weights, error>>

NextCache ==
    \/ \E pname \in InitPatterns : Instantiate(pname)
    \/ Construct(CachedRules, Observables)
    \/ Reactivity
    \/ Update
    \/ \E pname \in InitPatterns : SetMixture(pname)
    \/ \E pname \in InitPatterns : UpdateViaKasim(pname)

SpecCache == Init /\ [][NextCache]_vars

\* the cached reactivities are those of the mixture the System holds
CacheIsCurrent ==
    system.cached =>
        \A i \in DOMAIN system.rules :
            system.rule_reactivities[i] = n_embeddings(system.rules[i], mixture)

\* C39: whenever wait, choose_rule or reactivity reads the cached rule
\* reactivities, each cached value is the rule's n_embeddings on the mixture
\* the System holds at that moment (every rate is 1), and a replacement of
\* the mixture through set_mixture or update_via_kasim leaves no cache behind.
C39_CacheFollowsMixture ==
    [][/\ last'.op \in {"update", "reactivity"} => CacheIsCurrent
       /\ last'.op \in {"set_mixture", "update_via_kasim"} => ~system'.cached]_vars

\* the same while the mixture is changed by System.update() only
C39_CacheFollowsUpdates ==
    [][last'.op \in {"update", "reactivity"} => CacheIsCurrent]_vars

\* ------------------------------------------------- runs of System.update()
\* A System is built on an instantiated mixture and the rules are executed
\* through System.update() only.
NextUpdate ==
    \/ \E pname \in InitPatterns : Instantiate(pname)
    \/ \E rules \in RuleLists : Construct(rules, Observables)
    \/ Update

SpecUpdate == Init /\ [][NextUpdate]_vars

\* C40: at every call System.update() makes of the select of a unimolecular
\* or bimolecular rule, the rule's component_weights has the components of
\* the mixture of that moment as its keys and holds the weights n_embeddings
\* computes on that mixture, whatever steps came before: null events, steps
\* of other rules, steps of the rule itself.
C40_WeightsAreCurrentAtSelect ==
    [][/\ last'.op = "update"
       /\ last'.rule \in RuleNames
       => LET rname == last'.rule
          IN  rule_objects[rname].kind \in {"uni", "bi"} =>
                  /\ DOMAIN component_weights'[rname] = DOMAIN mixture.components
                  /\ component_weights'[rname] = Weights(rname, mixture)]_vars

C40_Witness ==
    /\ last.op = "update"
    /\ last.rule \in RuleNames
    /\ rule_objects[last.rule].kind \in {"uni", "bi"}
    /\ last.kind \in {"applied", "null"}
    /\ \E rname \in RuleNames \ {last.rule} : system.tallies[rname].applied > 0

====
